---- MODULE Spec2Model ----
(***************************************************************************)
(* A model of the spine-flutter facade (src/spine-flutter/src/             *)
(* spine_flutter.cpp): the block allocator that backs the per-frame render *)
(* commands, the render loop of a skeleton drawable with its clipper, and  *)
(* the event buffer and track entries of the drawable's AnimationState,    *)
(* the atlas and skeleton data loaders, the accessors and the skin entries *)
(* snapshot.                                                               *)
(*                                                                         *)
(* The specifications share the variables:                                 *)
(*   SpecArena  a BlockAllocator driven directly by allocate and compress  *)
(*   Spec       one skeleton drawable: render, the facade's setters,       *)
(*              dispose                                                    *)
(*   SpecAnim   the AnimationState of one drawable and its event buffer    *)
(*   SpecLoad   the atlas loader, the skeleton data loaders and the        *)
(*              process-wide y-down flag                                   *)
(*   SpecDispose the loaders and the dispose calls of what they return     *)
(*   SpecAccess the accessors, on absent and on present handles            *)
(*   SpecEvents the listener's event buffer and its indexed getters        *)
(*   SpecSkin   spine_skin_get_entries, one loop iteration per step        *)
(***************************************************************************)
EXTENDS Integers, Sequences, FiniteSets, TLC

VARIABLES
    allocator,      \* BlockAllocator: [initialBlockSize, blocks]
    heap,           \* SpineExtension memory: [live, invalidFree]
    regions,        \* the regions _allocate returned since the last compress
    lastCall,       \* the last call made: its name, arguments and result
    alive,          \* the drawable was created and is not yet disposed
    skeleton,       \* _spine_skeleton_drawable.skeleton: [color, slots, drawOrder]
    clipping,       \* _spine_skeleton_drawable.clipping: the clipper's open clip
    renderCommand,  \* _spine_skeleton_drawable.renderCommand: the list head
    commands,       \* the _spine_render_command structs held in arena memory
    animationState, \* _spine_skeleton_drawable.animationState
    entries,        \* the TrackEntry objects of the animation state
    events,         \* EventListener::events of the drawable's listener
    callbacks,      \* the listener callbacks made since the last reset
    yDown,          \* Bone::yDown, the process-wide flag
    objects,        \* the structs and strings the loaders allocated, by handle
    entity,         \* the runtime objects the accessors read, by kind
    skinCall        \* the spine_skin_get_entries call in progress

arenaVars == <<allocator, heap, regions>>
drawableVars == <<alive, skeleton, clipping, renderCommand, commands>>
animVars == <<animationState, entries, events, callbacks>>
vars == <<allocator, heap, regions, lastCall, alive, skeleton, clipping, renderCommand, commands,
          animationState, entries, events, callbacks, yDown, objects, entity, skinCall>>
facadeVars == <<yDown, objects, entity, skinCall>>

(***************************************************************************)
(* Bounds of the model and constants of the program.                       *)
(***************************************************************************)
\* the most allocations made directly on an arena between two compress calls
MaxAllocs == 3
\* the most bytes a directly driven arena may hold in its blocks
MaxArenaBytes == 9000
\* BlockAllocator(2048) in spine_skeleton_drawable_create
DrawableInitialBlockSize == 2048
\* the alignment of _allocate
Alignment == 16

\* the request sizes tried on a directly driven arena
RequestSizes == {0, 1, 15, 16, 17, 1000, 2048, 2049, 4000}

(***************************************************************************)
(* Helpers.                                                                *)
(***************************************************************************)
\* MathUtil::max
Max(a, b) == IF a > b THEN a ELSE b

\* the value of F at x, with x evaluated once: the sequencing of statements
Bind(x, F(_)) == CHOOSE r \in {F(v) : v \in {x}} : TRUE

RECURSIVE SumSizes(_)
\* the running total of compress(): the sum of the blocks' sizes
SumSizes(bs) == IF bs = <<>> THEN 0 ELSE Head(bs).size + SumSizes(Tail(bs))

(***************************************************************************)
(* SpineExtension::alloc and SpineExtension::free: a heap of memory ids.   *)
(* alloc hands out an id that is not live (an address may be reused once   *)
(* it was freed); free of an id that is not live is recorded as invalid.   *)
(***************************************************************************)
FreshId(h) == CHOOSE i \in 1..(Cardinality(h.live) + 1) : i \notin h.live

HeapAlloc(h) == [h EXCEPT !.live = @ \cup {FreshId(h)}]

HeapFree(h, id) ==
    IF id \in h.live THEN [h EXCEPT !.live = @ \ {id}, !.released = @ \cup {id}]
    ELSE [h EXCEPT !.invalidFree = TRUE]

\* a new call begins: nothing was released by it yet
BeginCall(A) == [A EXCEPT !.heap.released = {}]

RECURSIVE HeapFreeAll(_, _)
\* the loop of compress() and of ~BlockAllocator over blocks[i].memory
HeapFreeAll(h, bs) ==
    IF bs = <<>> THEN h ELSE HeapFreeAll(HeapFree(h, Head(bs).memory), Tail(bs))

(***************************************************************************)
(* Block                                                                   *)
(***************************************************************************)
\* Block::free
BlockFree(b) == b.size - b.allocated

\* a fit test that rejects the exact fit
canFit_Strict(b, numBytes) == BlockFree(b) > numBytes

\* Block::canFit
canFit(b, numBytes) == BlockFree(b) >= numBytes

\* an allocate that advances the mark but serves the block's first bytes
BlockAllocate_FromStart(b, numBytes) ==
    [block |-> [b EXCEPT !.allocated = @ + numBytes],
     ptr   |-> [memory |-> b.memory, offset |-> 0, len |-> numBytes]]

\* Block::allocate: the region starts at the mark, the mark advances
BlockAllocate(b, numBytes) ==
    [block |-> [b EXCEPT !.allocated = @ + numBytes],
     ptr   |-> [memory |-> b.memory, offset |-> b.allocated, len |-> numBytes]]

(***************************************************************************)
(* BlockAllocator.  An arena value is [al, heap, regions]: the allocator   *)
(* object, the heap it allocates from and the regions it has served.       *)
(***************************************************************************)
\* BlockAllocator::newBlock
newBlock(initialBlockSize, numBytes, h) ==
    [size |-> Max(initialBlockSize, numBytes), allocated |-> 0, memory |-> FreshId(h)]

\* a rounding that always pads, also when numBytes is already aligned
AlignedNumBytes_AlwaysPad(numBytes) ==
    numBytes + (Alignment - (numBytes % Alignment))

\* the 16-byte rounding of _allocate
AlignedNumBytes(numBytes) ==
    numBytes + (IF numBytes % Alignment # 0 THEN Alignment - (numBytes % Alignment) ELSE 0)

\* BlockAllocator::BlockAllocator
NewAllocator(initialBlockSize, h) ==
    [al      |-> [initialBlockSize |-> initialBlockSize,
                  blocks |-> <<newBlock(initialBlockSize, initialBlockSize, h)>>],
     heap    |-> HeapAlloc(h),
     regions |-> <<>>]

\* BlockAllocator::_allocate
_allocate(A, numBytes) ==
    LET alignedNumBytes == AlignedNumBytes(numBytes)
        tail   == A.al.blocks[Len(A.al.blocks)]
        grow   == ~canFit(tail, alignedNumBytes)
        blocks1 == IF grow
                   THEN Append(A.al.blocks,
                               newBlock(A.al.initialBlockSize,
                                        Max(A.al.initialBlockSize, alignedNumBytes), A.heap))
                   ELSE A.al.blocks
        heap1  == IF grow THEN HeapAlloc(A.heap) ELSE A.heap
        served == BlockAllocate(blocks1[Len(blocks1)], alignedNumBytes)
    IN  [al      |-> [A.al EXCEPT !.blocks = [blocks1 EXCEPT ![Len(blocks1)] = served.block]],
         heap    |-> heap1,
         regions |-> Append(A.regions, served.ptr),
         ptr     |-> served.ptr]

\* a compress that goes back to a block of the initial size
compress_InitialSize(A) ==
    LET heap1 == HeapFreeAll(A.heap, A.al.blocks)
    IN  [al      |-> [A.al EXCEPT !.blocks = <<newBlock(A.al.initialBlockSize, 0, heap1)>>],
         heap    |-> HeapAlloc(heap1),
         regions |-> <<>>]

\* a compress that sizes the new block to the bytes in use, not to the capacity
compress_UsedBytes(A) ==
    LET heap1 == HeapFreeAll(A.heap, A.al.blocks)
        RECURSIVE Used(_)
        Used(bs) == IF bs = <<>> THEN 0 ELSE Head(bs).allocated + Used(Tail(bs))
    IN  [al      |-> [A.al EXCEPT !.blocks =
                         <<newBlock(A.al.initialBlockSize, Used(A.al.blocks), heap1)>>],
         heap    |-> HeapAlloc(heap1),
         regions |-> <<>>]

\* BlockAllocator::compress
compress(A) ==
    LET totalSize == SumSizes(A.al.blocks)
        heap1     == HeapFreeAll(A.heap, A.al.blocks)
    IN  [al      |-> [A.al EXCEPT !.blocks = <<newBlock(A.al.initialBlockSize, totalSize, heap1)>>],
         heap    |-> HeapAlloc(heap1),
         regions |-> <<>>]

\* the arena value held in the variables
Arena == [al |-> allocator, heap |-> heap, regions |-> regions]

SetArena(A) ==
    /\ allocator' = A.al
    /\ heap' = A.heap
    /\ regions' = A.regions

(***************************************************************************)
(* SpecArena: one BlockAllocator, driven by allocate and compress.         *)
(***************************************************************************)
EmptyHeap == [live |-> {}, invalidFree |-> FALSE, released |-> {}]

\* nullptr
Null == [memory |-> 0, offset |-> 0, len |-> 0]

(***************************************************************************)
(* The AnimationState of a drawable, its track entries and its listener.   *)
(***************************************************************************)
\* the number of TrackEntry objects the animation state may hold at a time
MaxEntries == 2
\* the most events the listener's buffer may hold
MaxEvents == 4

\* the track indices and the animations the caller uses
TrackIndexes == {0}
Animations == {"walk", "run"}
EntryIds == 1..MaxEntries

\* a TrackEntry object that is in the pool: not handed out, or reclaimed
FreeEntry == [status |-> "free", animation |-> "", trackIndex |-> 0, applied |-> FALSE]

\* an animation state that reclaims a track entry with its dispose event
CreateAnimationState_AutoDisposal ==
    [manualTrackEntryDisposal |-> FALSE, tracks |-> [t \in TrackIndexes |-> 0]]

\* new AnimationState(stateData); state->setManualTrackEntryDisposal(true)
CreateAnimationState ==
    [manualTrackEntryDisposal |-> TRUE, tracks |-> [t \in TrackIndexes |-> 0]]

\* the drawable's animation state, entries and listener as create leaves them
AnimCreated ==
    /\ animationState = CreateAnimationState
    /\ entries = [e \in EntryIds |-> FreeEntry]
    /\ events = <<>>
    /\ callbacks = 0

\* a callback that keeps only the latest event
callback_KeepLatest(evs, type, entry, event) ==
    <<[type |-> type, entry |-> entry, event |-> event]>>

\* EventListener::callback
callback(evs, type, entry, event) ==
    Append(evs, [type |-> type, entry |-> entry, event |-> event])

RECURSIVE Drain(_, _)
\* the animation state hands each queued event to the listener, in order
Drain(evs, queue) ==
    IF queue = <<>> THEN evs
    ELSE Drain(callback(evs, Head(queue).type, Head(queue).entry, Head(queue).event),
               Tail(queue))

\* a lifecycle event of entry e: it carries no Event
Lifecycle(type, e) == [type |-> type, entry |-> e, event |-> 0]

\* what the dispose event of an entry does to it: the animation state lets
\* go of it, and reclaims it unless track entries are disposed manually
Retire(as, ent) ==
    IF as.manualTrackEntryDisposal THEN [ent EXCEPT !.status = "retired"] ELSE FreeEntry

\* TrackEntryPool::free, reached through AnimationState::disposeTrackEntry
disposeTrackEntry(ents, e) == [ents EXCEPT ![e] = FreeEntry]

(***************************************************************************)
(* The structs and strings of the loaders.  A handle is the position of an *)
(* object in the sequence objects, 0 the absent handle.  A string pointer  *)
(* [base, page] points to the string object base (page = 0) or to the      *)
(* texture path of page `page' inside the Atlas object base.               *)
(***************************************************************************)
\* the most pages an atlas description declares
MaxPages == 2
\* the most structs and strings the loaders allocate
MaxObjects == 6

TexturePaths == {"a.png", "b.png"}
NullString == [base |-> 0, page |-> 0]

\* the atlas descriptions a caller passes: absent, or a text that declares
\* pages and is well formed or not
AtlasTexts ==
    {[present |-> FALSE, pages |-> <<>>, wellFormed |-> TRUE]} \cup
    {[present |-> TRUE, pages |-> ps, wellFormed |-> w] :
        ps \in UNION {[1..n -> TexturePaths] : n \in 0..MaxPages}, w \in BOOLEAN}

\* the skeleton documents a caller passes: absent, well formed or malformed
SkeletonTexts ==
    {[present |-> FALSE, wellFormed |-> TRUE],
     [present |-> TRUE, wellFormed |-> TRUE],
     [present |-> TRUE, wellFormed |-> FALSE]}

\* the length arguments of the binary loader
Lengths == {-1, 0, 4}

\* Atlas::Atlas(data, length, "", nullptr, false): the pages it read
NewAtlas(atlasData) == [kind |-> "Atlas", pages |-> atlasData.pages]

\* the string a pointer points to
Deref(objs, ptr) ==
    IF ptr.page = 0 THEN objs[ptr.base].text ELSE objs[ptr.base].pages[ptr.page]

\* an atlas load that stores the pages' own texture path buffers
spine_atlas_load_SharePaths(objs, atlasData) ==
    IF ~atlasData.present THEN [objects |-> objs, result |-> 0]
    ELSE LET atlas  == Len(objs) + 1
             result == atlas + 1
             n      == Len(NewAtlas(atlasData).pages)
         IN  [objects |-> objs \o
                  <<NewAtlas(atlasData),
                    [kind |-> "_spine_atlas", atlas |-> atlas, numImagePaths |-> n,
                     imagePaths |-> [i \in 1..n |-> [base |-> atlas, page |-> i]],
                     error |-> NullString]>>,
              result |-> result]

\* spine_atlas_load
spine_atlas_load(objs, atlasData) ==
    IF ~atlasData.present THEN [objects |-> objs, result |-> 0]
    ELSE LET atlas  == Len(objs) + 1
             result == atlas + 1
             n      == Len(NewAtlas(atlasData).pages)
         IN  [objects |-> objs \o
                  <<NewAtlas(atlasData),
                    [kind |-> "_spine_atlas", atlas |-> atlas, numImagePaths |-> n,
                     imagePaths |-> [i \in 1..n |-> [base |-> result + i, page |-> 0]],
                     error |-> NullString]>> \o
                  [i \in 1..n |-> [kind |-> "string", text |-> NewAtlas(atlasData).pages[i]]],
              result |-> result]

\* spine_atlas_get_num_image_paths
spine_atlas_get_num_image_paths(objs, atlas) ==
    IF atlas = 0 THEN 0 ELSE objs[atlas].numImagePaths

\* what a read outside the imagePaths array may yield: any pointer value
WildReads == {NullString, [base |-> -1, page |-> 0]}

\* spine_atlas_get_image_path: the values the call may return, and whether
\* it read outside the array
spine_atlas_get_image_path(objs, atlas, index) ==
    IF atlas = 0 THEN [results |-> {NullString}, outside |-> FALSE]
    ELSE IF index >= 0 /\ index < objs[atlas].numImagePaths
    THEN [results |-> {objs[atlas].imagePaths[index + 1]}, outside |-> FALSE]
    ELSE [results |-> WildReads, outside |-> TRUE]

\* spine_atlas_get_error
spine_atlas_get_error(objs, atlas) ==
    IF atlas = 0 THEN NullString ELSE objs[atlas].error

\* the calloc'ed _spine_skeleton_data_result
EmptyResult == [kind |-> "_spine_skeleton_data_result", skeletonData |-> 0, error |-> NullString]

\* SkeletonJson::readSkeletonData / SkeletonBinary::readSkeletonData and the
\* lines that store their outcome: the data of a well formed document, or no
\* data and the reader's error
ReadSkeletonData(objs, skeletonData) ==
    LET result == Len(objs) + 1
    IN  IF skeletonData.wellFormed
        THEN objs \o <<[EmptyResult EXCEPT !.skeletonData = result + 1],
                       [kind |-> "SkeletonData"]>>
        ELSE objs \o <<[EmptyResult EXCEPT !.error = [base |-> result + 1, page |-> 0]],
                       [kind |-> "string", text |-> "parse error"]>>

\* a loader that sets the y-down flag only when it goes on to parse
spine_skeleton_data_load_json_FlagOnParse(objs, yd, atlas, skeletonData) ==
    LET bad == [objects |-> Append(objs, EmptyResult), yDown |-> yd,
                result |-> Len(objs) + 1, parsed |-> FALSE]
    IN  IF atlas = 0 THEN bad
        ELSE IF objs[atlas].atlas = 0 THEN bad
        ELSE IF ~skeletonData.present THEN bad
        ELSE [objects |-> ReadSkeletonData(objs, skeletonData), yDown |-> TRUE,
              result |-> Len(objs) + 1, parsed |-> TRUE]

\* spine_skeleton_data_load_json: the objects, the flag, the result handle
\* and whether the reader was run
spine_skeleton_data_load_json(objs, yd, atlas, skeletonData) ==
    LET bad == [objects |-> Append(objs, EmptyResult), yDown |-> TRUE,
                result |-> Len(objs) + 1, parsed |-> FALSE]
    IN  IF atlas = 0 THEN bad
        ELSE IF objs[atlas].atlas = 0 THEN bad
        ELSE IF ~skeletonData.present THEN bad
        ELSE [objects |-> ReadSkeletonData(objs, skeletonData), yDown |-> TRUE,
              result |-> Len(objs) + 1, parsed |-> TRUE]

\* a binary loader that parses whatever the length is
spine_skeleton_data_load_binary_AnyLength(objs, yd, atlas, skeletonData, length) ==
    spine_skeleton_data_load_json(objs, yd, atlas, skeletonData)

\* spine_skeleton_data_load_binary
spine_skeleton_data_load_binary(objs, yd, atlas, skeletonData, length) ==
    LET bad == [objects |-> Append(objs, EmptyResult), yDown |-> TRUE,
                result |-> Len(objs) + 1, parsed |-> FALSE]
    IN  IF atlas = 0 THEN bad
        ELSE IF objs[atlas].atlas = 0 THEN bad
        ELSE IF ~skeletonData.present THEN bad
        ELSE IF length <= 0 THEN bad
        ELSE [objects |-> ReadSkeletonData(objs, skeletonData), yDown |-> TRUE,
              result |-> Len(objs) + 1, parsed |-> TRUE]

\* spine_skeleton_data_result_get_error
spine_skeleton_data_result_get_error(objs, result) ==
    IF result = 0 THEN NullString ELSE objs[result].error

\* spine_skeleton_data_result_get_data
spine_skeleton_data_result_get_data(objs, result) ==
    IF result = 0 THEN 0 ELSE objs[result].skeletonData

\* spine_bone_get_is_y_down
spine_bone_get_is_y_down(yd) == IF yd THEN -1 ELSE 0

\* the runtime objects before any was made, and no skin call in progress
NoEntity == [made |-> FALSE]
NoSkinCall == [pc |-> "idle"]

\* the loaders' and accessors' variables before any call
FacadeStart ==
    /\ yDown = FALSE
    /\ objects = <<>>
    /\ entity = NoEntity
    /\ skinCall = NoSkinCall

\* no drawable: the values the drawable's variables keep under SpecArena
NoDrawable ==
    /\ AnimCreated
    /\ alive = FALSE
    /\ skeleton = [color |-> <<0, 0, 0, 0>>, slots |-> <<>>, drawOrder |-> <<>>]
    /\ clipping = Null
    /\ renderCommand = Null
    /\ commands = <<>>

InitArena ==
    LET A == NewAllocator(DrawableInitialBlockSize, EmptyHeap)
    IN  /\ allocator = A.al
        /\ heap = A.heap
        /\ regions = A.regions
        /\ lastCall = [op |-> "new"]
        /\ NoDrawable
        /\ FacadeStart

\* allocator.allocate<uint8_t>(numBytes)
Allocate ==
    \E numBytes \in RequestSizes :
        \E R \in {_allocate(BeginCall(Arena), numBytes)} :
            /\ Len(regions) < MaxAllocs
            /\ SumSizes(R.al.blocks) <= MaxArenaBytes
            /\ SetArena(R)
            /\ lastCall' = [op |-> "allocate", numBytes |-> numBytes, ptr |-> R.ptr,
                            before |-> allocator.blocks]
            /\ UNCHANGED <<drawableVars, animVars, facadeVars>>

\* allocator.compress()
Compress ==
    /\ SetArena(compress(BeginCall(Arena)))
    /\ lastCall' = [op |-> "compress", before |-> allocator.blocks]
    /\ UNCHANGED <<drawableVars, animVars, facadeVars>>

NextArena == Allocate \/ Compress

SpecArena == InitArena /\ [][NextArena]_vars

(***************************************************************************)
(* The skeleton of a drawable.  A color channel c stands for the float     *)
(* c / ChannelDen; with ChannelDen a power of two every product the render *)
(* loop forms is exact in 32-bit floating point, so the loop's float       *)
(* arithmetic is integer arithmetic on the numerators.                     *)
(***************************************************************************)
\* the number of slots of the skeleton
NumSlots == 3
\* the denominator of a color channel: channel c is the float c / 2
ChannelDen == 2
\* sizeof(_spine_render_command) with 8-byte pointers
SizeofRenderCommand == 64
\* sizeof(float)
SizeofFloat == 4
\* sizeof(int32_t)
SizeofInt32 == 4
\* sizeof(uint16_t)
SizeofUint16 == 2

White == <<ChannelDen, ChannelDen, ChannelDen, ChannelDen>>
Alpha(color) == color[4]

\* no attachment assigned to the slot
NoAttachment == [kind |-> "None"]

\* a RegionAttachment: its tint, its region's atlas page and, as `hit', how
\* its quad lies against the clip polygons of the skeleton
RegionAtt(color, hit) ==
    [kind |-> "Region", color |-> color, page |-> 1, hit |-> hit]

\* a MeshAttachment of 64 vertices and two triangles
MeshAtt(color, hit) ==
    [kind |-> "Mesh", color |-> color, page |-> 2, hit |-> hit,
     worldVerticesLength |-> 128, triangles |-> <<0, 1, 2, 1, 2, 3>>]

\* a ClippingAttachment with its end slot (a slot data index, 0: none)
ClippingAtt(endSlot) == [kind |-> "Clipping", endSlot |-> endSlot]

\* a BoundingBoxAttachment (as are Path and Point: none of the drawn kinds)
BoundingBoxAtt == [kind |-> "BoundingBox"]

Transparent == <<ChannelDen, ChannelDen, ChannelDen, 0>>

\* the end slots tried for a clipping attachment: none, or slot data 1 or 2
ClipEndSlots == {0, 1, 2}

\* what a slot of the skeleton may hold: [attachment, color, boneActive]
SlotSetups ==
    {[attachment |-> NoAttachment, color |-> White, boneActive |-> TRUE],
     [attachment |-> RegionAtt(White, "inside"), color |-> White, boneActive |-> TRUE],
     [attachment |-> RegionAtt(White, "outside"), color |-> White, boneActive |-> TRUE],
     [attachment |-> RegionAtt(Transparent, "inside"), color |-> White, boneActive |-> TRUE],
     [attachment |-> RegionAtt(White, "inside"), color |-> Transparent, boneActive |-> TRUE],
     [attachment |-> RegionAtt(White, "inside"), color |-> White, boneActive |-> FALSE],
     [attachment |-> MeshAtt(White, "inside"), color |-> White, boneActive |-> TRUE],
     [attachment |-> MeshAtt(Transparent, "inside"), color |-> White, boneActive |-> TRUE],
     [attachment |-> BoundingBoxAtt, color |-> White, boneActive |-> TRUE]}
    \cup {[attachment |-> ClippingAtt(e), color |-> White, boneActive |-> TRUE] :
            e \in ClipEndSlots}

\* the slot with slot data index d: its blend mode is its data's
MakeSlot(d, setup) ==
    [data |-> d, attachment |-> setup.attachment, color |-> setup.color,
     boneActive |-> setup.boneActive, blendMode |-> d % 4]

(***************************************************************************)
(* SkeletonClipping, as the facade uses it.  The clipper's state is the    *)
(* open clip attachment (Null: not clipping).                              *)
(***************************************************************************)
\* SkeletonClipping::clipStart: opens, or replaces, the clip
clipStart(clip, slot, attachment) == attachment

\* SkeletonClipping::clipEnd(slot): ends the clip whose end slot is this slot
clipEndSlot(clip, slot) ==
    IF clip # Null /\ clip.endSlot = slot.data THEN Null ELSE clip

\* a clipEnd() that leaves the clip open
clipEnd_KeepOpen(clip) == clip

\* SkeletonClipping::clipEnd(): ends any clip
clipEnd(clip) == Null

\* SkeletonClipping::isClipping
isClipping(clip) == clip # Null

\* SkeletonClipping::clipTriangles: the clipped vertices, uvs and triangles.
\* Geometry inside the clip polygon comes back triangle by triangle (three
\* vertices each), geometry outside it comes back empty.
clipTriangles(clip, slot, indices) ==
    IF slot.attachment.hit = "outside"
    THEN [vertices  |-> [src |-> "clipped", slot |-> slot.data, floats |-> 0],
          uvs       |-> [src |-> "clippedUVs", slot |-> slot.data, floats |-> 0],
          triangles |-> <<>>]
    ELSE [vertices  |-> [src |-> "clipped", slot |-> slot.data, floats |-> 2 * Len(indices)],
          uvs       |-> [src |-> "clippedUVs", slot |-> slot.data, floats |-> 2 * Len(indices)],
          triangles |-> [k \in 1..Len(indices) |-> k - 1]]

(***************************************************************************)
(* The render command and the render loop.                                 *)
(***************************************************************************)
\* BlockAllocator::allocate<T>(num)
allocate(A, sizeofT, num) == _allocate(A, sizeofT * num)

\* spine_render_command_create
spine_render_command_create(A, numVertices, numIndices, blendMode, pageIndex) ==
    Bind(allocate(A, SizeofRenderCommand, 1), LAMBDA a1 :
    Bind(allocate(a1, SizeofFloat, numVertices * 2), LAMBDA a2 :
    Bind(allocate(a2, SizeofFloat, numVertices * 2), LAMBDA a3 :
    Bind(allocate(a3, SizeofInt32, numVertices), LAMBDA a4 :
    Bind(allocate(a4, SizeofUint16, numIndices), LAMBDA a5 :
        [A   |-> [al |-> a5.al, heap |-> a5.heap, regions |-> a5.regions],
         cmd |-> [self |-> a1.ptr, positions |-> a2.ptr, uvs |-> a3.ptr, colors |-> a4.ptr,
                  numVertices |-> numVertices, indices |-> a5.ptr,
                  numIndices |-> numIndices, blendMode |-> blendMode,
                  atlasPage |-> pageIndex, next |-> Null]])))))

\* a conversion that rounds to the nearest integer instead of truncating
Channel8_Round(s, l, t) ==
    (2 * s * l * t * 255 + ChannelDen * ChannelDen * ChannelDen)
        \div (2 * ChannelDen * ChannelDen * ChannelDen)

\* static_cast<uint8_t>(skeleton * slot * attachment * 255): the product of
\* the three floats by 255, truncated toward zero
Channel8(s, l, t) == (s * l * t * 255) \div (ChannelDen * ChannelDen * ChannelDen)

\* uint32_t color = (a << 24) | (r << 16) | (g << 8) | b, as the int32_t that
\* cmd->colors[ii] = color stores: the four 8-bit fields do not overlap, so
\* the bitwise or is their sum, and the 32-bit word is kept in its signed
\* reading, the value in -2^31 .. 2^31 - 1 congruent to it modulo 2^32
PackColor(r, g, b, a) ==
    (IF a >= 128 THEN a - 256 ELSE a) * 16777216 + r * 65536 + g * 256 + b

\* a quad split along its other diagonal
quadIndices_OtherDiagonal == <<0, 1, 3, 1, 2, 3>>

\* the quadIndices vector of spine_skeleton_drawable_render
quadIndices == <<0, 1, 2, 2, 3, 0>>

\* the index of the command at pointer p in the sequence cmds
CmdAt(cmds, p) == CHOOSE k \in 1..Len(cmds) : cmds[k].self = p

\* the early out on the slot: its color's alpha is 0 or its bone is inactive
SlotEarlyOut(slot) == Alpha(slot.color) = 0 \/ ~slot.boneActive

\* an early out that never fires
AttachmentEarlyOut_Never(attachment) == FALSE

\* the early out on a Region or Mesh attachment: its own color's alpha is 0
AttachmentEarlyOut(attachment) == Alpha(attachment.color) = 0

\* a loop end that leaves the clip open
ClipEndAfterCommand_Skip(clip, slot) == clip

\* the clipper.clipEnd(slot) that ends an iteration which wrote a command
ClipEndAfterCommand(clip, slot) == clipEndSlot(clip, slot)

\* one iteration of the loop over the draw order; st is the loop's state:
\* the arena A, the clipper's clip, the commands written so far, the list
\* head renderCommand, lastCommand, and a log of what each slot did
RenderSlot(sk, st, i) ==
    LET slot       == sk.slots[sk.drawOrder[i]]
        attachment == slot.attachment
        skipped(why, clip1) ==
            [st EXCEPT !.clip = clip1,
                       !.log = Append(@, [slot |-> slot.data, did |-> why,
                                          clipEnd |-> (why \in {"hidden", "transparent"}),
                                          clipped |-> FALSE])]
    IN  IF attachment.kind = "None" THEN skipped("noAttachment", st.clip)
        ELSE IF SlotEarlyOut(slot)
        THEN skipped("hidden", clipEndSlot(st.clip, slot))
        ELSE IF attachment.kind \in {"Region", "Mesh"} /\ AttachmentEarlyOut(attachment)
        THEN skipped("transparent", clipEndSlot(st.clip, slot))
        ELSE IF attachment.kind = "Clipping"
        THEN skipped("clipStart", clipStart(st.clip, slot, attachment))
        ELSE IF attachment.kind \notin {"Region", "Mesh"}
        THEN skipped("otherKind", st.clip)
        ELSE
        LET isRegion == attachment.kind = "Region"
            worldLen == IF isRegion THEN 8 ELSE attachment.worldVerticesLength
            verticesCount0 == IF isRegion THEN 4 ELSE worldLen \div 2
            uvs0     == [src |-> "attachmentUVs", slot |-> slot.data, floats |-> worldLen]
            indices0 == IF isRegion THEN quadIndices ELSE attachment.triangles
            r == Channel8(sk.color[1], slot.color[1], attachment.color[1])
            g == Channel8(sk.color[2], slot.color[2], attachment.color[2])
            b == Channel8(sk.color[3], slot.color[3], attachment.color[3])
            a == Channel8(sk.color[4], slot.color[4], attachment.color[4])
            color == PackColor(r, g, b, a)
            clipNow == isClipping(st.clip)
            out  == clipTriangles(st.clip, slot, indices0)
            vertices == IF clipNow THEN out.vertices
                        ELSE [src |-> "world", slot |-> slot.data, floats |-> worldLen]
            verticesCount == IF clipNow THEN out.vertices.floats \div 2 ELSE verticesCount0
            uvs      == IF clipNow THEN out.uvs ELSE uvs0
            indices  == IF clipNow THEN out.triangles ELSE indices0
            indicesCount == Len(indices)
        IN  Bind(spine_render_command_create(st.A, verticesCount, indicesCount,
                                             slot.blendMode, attachment.page), LAMBDA made :
        LET cmd  == [slot |-> slot.data,
                     self |-> made.cmd.self,
                     positions |-> made.cmd.positions,
                     uvs |-> made.cmd.uvs,
                     colors |-> made.cmd.colors,
                     indices |-> made.cmd.indices,
                     numVertices |-> made.cmd.numVertices,
                     numIndices |-> made.cmd.numIndices,
                     blendMode |-> made.cmd.blendMode,
                     atlasPage |-> made.cmd.atlasPage,
                     next |-> made.cmd.next,
                     positionsData |-> [vertices EXCEPT !.floats = verticesCount * 2],
                     uvsData |-> [uvs EXCEPT !.floats = verticesCount * 2],
                     colorsData |-> [ii \in 1..verticesCount |-> color],
                     indicesData |-> indices]
            linked == IF st.lastCommand = Null
                      THEN Append(st.cmds, cmd)
                      ELSE Append([st.cmds EXCEPT ![CmdAt(st.cmds, st.lastCommand)].next = cmd.self],
                                  cmd)
        IN  [A  |-> made.A,
             clip |-> ClipEndAfterCommand(st.clip, slot),
             cmds |-> linked,
             renderCommand |-> IF st.lastCommand = Null THEN cmd.self ELSE st.renderCommand,
             lastCommand |-> cmd.self,
             log |-> Append(st.log, [slot |-> slot.data, did |-> "emit", clipEnd |-> TRUE,
                                     clipped |-> clipNow])])

RECURSIVE RenderLoop_SlotOrder(_, _, _)
\* a loop that visits the slots in their order among the skeleton's slots
\* instead of the draw order
RenderLoop_SlotOrder(sk, st, i) ==
    IF i > Len(sk.slots) THEN st
    ELSE Bind(RenderSlot([sk EXCEPT !.drawOrder = [k \in 1..Len(sk.slots) |-> k]], st, i),
              LAMBDA st1 : RenderLoop_SlotOrder(sk, st1, i + 1))

RECURSIVE RenderLoop(_, _, _)
\* for (unsigned i = 0; i < skeleton->getSlots().size(); ++i)
RenderLoop(sk, st, i) ==
    IF i > Len(sk.slots) THEN st
    ELSE Bind(RenderSlot(sk, st, i), LAMBDA st1 : RenderLoop(sk, st1, i + 1))

\* a render that leaves the stored head as it was instead of clearing it
RenderDrawable_KeepHead(A, sk, clip, head) ==
    LET A1 == compress(A)
        st0 == [A |-> A1, clip |-> clip, cmds |-> <<>>, renderCommand |-> head,
                lastCommand |-> Null, log |-> <<>>]
    IN  Bind(st0, LAMBDA st : [RenderLoop(sk, st, 1) EXCEPT !.clip = clipEnd(@)])

\* a render that returns without the closing clipEnd()
RenderDrawable_NoFinalClipEnd(A, sk, clip, head) ==
    LET A1 == compress(A)
        st0 == [A |-> A1, clip |-> clip, cmds |-> <<>>, renderCommand |-> Null,
                lastCommand |-> Null, log |-> <<>>]
    IN  Bind(st0, LAMBDA st : RenderLoop(sk, st, 1))

\* spine_skeleton_drawable_render on a drawable with a skeleton: compress the
\* arena, clear the head, run the loop, close the clipper
RenderDrawable(A, sk, clip, head) ==
    LET A1 == compress(A)
        st0 == [A |-> A1, clip |-> clip, cmds |-> <<>>, renderCommand |-> Null,
                lastCommand |-> Null, log |-> <<>>]
    IN  Bind(st0, LAMBDA st : [RenderLoop(sk, st, 1) EXCEPT !.clip = clipEnd(@)])

(***************************************************************************)
(* Spec: one skeleton drawable.                                            *)
(***************************************************************************)
\* the draw order of the skeleton: the reverse of the slot order, so that a
\* slot's place in the draw order differs from its place among the slots
ReverseOrder == [k \in 1..NumSlots |-> NumSlots + 1 - k]

\* the skeletons a drawable is created over: every slot in one of its setups
Skeletons ==
    {[color |-> White,
      slots |-> [d \in 1..NumSlots |-> MakeSlot(d, setups[d])],
      drawOrder |-> ReverseOrder] :
        setups \in [1..NumSlots -> SlotSetups]}

\* spine_skeleton_drawable_create
Init ==
    LET A == NewAllocator(DrawableInitialBlockSize, EmptyHeap)
    IN  /\ allocator = A.al
        /\ heap = A.heap
        /\ regions = A.regions
        /\ alive = TRUE
        /\ skeleton \in Skeletons
        /\ clipping = Null
        /\ renderCommand = Null
        /\ commands = <<>>
        /\ lastCall = [op |-> "create"]
        /\ AnimCreated
        /\ FacadeStart

\* spine_skeleton_drawable_render
Render ==
    /\ alive
    /\ \E st \in {RenderDrawable(BeginCall(Arena), skeleton, clipping, renderCommand)} :
           /\ SetArena(st.A)
           /\ clipping' = st.clip
           /\ commands' = st.cmds
           /\ renderCommand' = st.renderCommand
           /\ lastCall' = [op |-> "render", result |-> st.renderCommand, log |-> st.log,
                           before |-> allocator.blocks]
    /\ UNCHANGED <<alive, skeleton>>
    /\ UNCHANGED <<animVars, facadeVars>>

\* a destructor that releases the first block only
DestroyAllocator_FirstBlock(A) ==
    [al |-> [A.al EXCEPT !.blocks = <<>>],
     heap |-> HeapFree(A.heap, A.al.blocks[1].memory),
     regions |-> <<>>]

\* BlockAllocator::~BlockAllocator
DestroyAllocator(A) ==
    [al |-> [A.al EXCEPT !.blocks = <<>>], heap |-> HeapFreeAll(A.heap, A.al.blocks),
     regions |-> <<>>]

\* spine_skeleton_drawable_dispose
Dispose ==
    /\ alive
    /\ alive' = FALSE
    /\ SetArena(DestroyAllocator(BeginCall(Arena)))
    /\ commands' = <<>>
    /\ lastCall' = [op |-> "dispose"]
    /\ events' = <<>>
    /\ callbacks' = 0
    /\ animationState' = [animationState EXCEPT !.tracks = [t \in TrackIndexes |-> 0]]
    /\ entries' = [e \in EntryIds |->
                     IF entries[e].status \in {"current", "mixingFrom"} THEN FreeEntry
                     ELSE entries[e]]
    /\ UNCHANGED <<skeleton, clipping, renderCommand, facadeVars>>

\* the slots whose attachment the model sets, and the attachments it sets:
\* none, or a mesh
SettableSlots == {1}
SettableAttachments == {NoAttachment, MeshAtt(White, "inside")}

\* spine_slot_set_attachment
SetAttachment ==
    \E d \in SettableSlots, attachment \in SettableAttachments :
        /\ alive
        /\ skeleton' = [skeleton EXCEPT !.slots[d].attachment = attachment]
        /\ lastCall' = [op |-> "slot_set_attachment", slot |-> d]
        /\ heap' = BeginCall(Arena).heap
        /\ UNCHANGED <<allocator, regions, alive, clipping, renderCommand, commands>>
        /\ UNCHANGED <<animVars, facadeVars>>

Next == Render \/ Dispose \/ SetAttachment

Spec == Init /\ [][Next]_vars

(***************************************************************************)
(* SpecColor: a drawable whose skeleton has one slot with a Region or a     *)
(* Mesh attachment, under every combination of tints of the grid.          *)
(***************************************************************************)
\* the tints whose channels are 0, 1/2 or 1
Tints == {<<r, g, b, a>> : r \in 0..ChannelDen, g \in 0..ChannelDen,
                           b \in 0..ChannelDen, a \in 0..ChannelDen}

\* white, and the tints with one channel at 1/2 and the others at 1
FullTints ==
    {c \in Tints : /\ \A k \in 1..4 : c[k] # 0
                   /\ Cardinality({k \in 1..4 : c[k] # ChannelDen}) <= 1}

\* spine_skeleton_drawable_create over a skeleton of one slot
InitColor ==
    LET A == NewAllocator(DrawableInitialBlockSize, EmptyHeap)
    IN  /\ allocator = A.al
        /\ heap = A.heap
        /\ regions = A.regions
        /\ alive = TRUE
        /\ \E slotColor \in FullTints, attachmentColor \in Tints,
              make \in {"Region", "Mesh"} :
              skeleton =
                [color |-> White,
                 slots |-> <<MakeSlot(1, [attachment |->
                                            IF make = "Region"
                                            THEN RegionAtt(attachmentColor, "inside")
                                            ELSE MeshAtt(attachmentColor, "inside"),
                                          color |-> slotColor, boneActive |-> TRUE])>>,
                 drawOrder |-> <<1>>]
        /\ clipping = Null
        /\ renderCommand = Null
        /\ commands = <<>>
        /\ lastCall = [op |-> "create"]
        /\ AnimCreated
        /\ FacadeStart

\* spine_skeleton_set_color
SetSkeletonColor ==
    \E color \in FullTints :
        /\ alive
        /\ skeleton' = [skeleton EXCEPT !.color = color]
        /\ lastCall' = [op |-> "skeleton_set_color"]
        /\ heap' = BeginCall(Arena).heap
        /\ UNCHANGED <<allocator, regions, alive, clipping, renderCommand, commands>>
        /\ UNCHANGED <<animVars, facadeVars>>

NextColor == Render \/ SetSkeletonColor

SpecColor == InitColor /\ [][NextColor]_vars

(***************************************************************************)
(* SpecAnim: the animation state of one drawable and its event buffer.     *)
(***************************************************************************)
InitAnim ==
    LET A == NewAllocator(DrawableInitialBlockSize, EmptyHeap)
    IN  /\ allocator = A.al
        /\ heap = A.heap
        /\ regions = A.regions
        /\ alive = TRUE
        /\ skeleton = [color |-> White, slots |-> <<>>, drawOrder |-> <<>>]
        /\ clipping = Null
        /\ renderCommand = Null
        /\ commands = <<>>
        /\ lastCall = [op |-> "create"]
        /\ AnimCreated
        /\ FacadeStart

\* the entries of the given status on track t
EntriesOf(t, status) ==
    {e \in EntryIds : entries[e].status = status /\ entries[e].trackIndex = t}

\* the events of the entries in set S, each entry's in the order of types
RECURSIVE EventsFor(_, _)
EventsFor(S, types) ==
    IF S = {} THEN <<>>
    ELSE LET e == CHOOSE x \in S : \A y \in S : x <= y
         IN  [k \in 1..Len(types) |-> Lifecycle(types[k], e)] \o EventsFor(S \ {e}, types)

\* a call into the animation state that queues `queue' and leaves the
\* entries as ents: the queue is drained into the listener
AnimStep(op, ents, tracks, queue) ==
    /\ alive
    /\ Len(events) + Len(queue) <= MaxEvents
    /\ events' = Drain(events, queue)
    /\ callbacks' = callbacks + Len(queue)
    /\ entries' = ents
    /\ animationState' = [animationState EXCEPT !.tracks = tracks]
    /\ lastCall' = [op |-> op, before |-> events, queued |-> queue]
    /\ UNCHANGED <<arenaVars, drawableVars, facadeVars>>

\* spine_animation_state_set_animation: the track's current entry, if any, is
\* interrupted and superseded by a new entry; a current entry that was never
\* applied is ended at once instead of being mixed out
SetAnimation ==
    \E t \in TrackIndexes, animation \in Animations :
        /\ \E e \in EntryIds : entries[e].status = "free"
        /\ LET new  == CHOOSE e \in EntryIds :
                          entries[e].status = "free" /\
                          \A x \in EntryIds : entries[x].status = "free" => e <= x
               cur  == animationState.tracks[t]
               made == [status |-> "current", animation |-> animation, trackIndex |-> t,
                        applied |-> FALSE]
           IN  IF cur = 0
               THEN AnimStep("set_animation", [entries EXCEPT ![new] = made],
                             [animationState.tracks EXCEPT ![t] = new],
                             <<Lifecycle("start", new)>>)
               ELSE IF entries[cur].applied
               THEN AnimStep("set_animation",
                             [entries EXCEPT ![new] = made, ![cur].status = "mixingFrom"],
                             [animationState.tracks EXCEPT ![t] = new],
                             <<Lifecycle("interrupt", cur), Lifecycle("start", new)>>)
               ELSE AnimStep("set_animation",
                             [entries EXCEPT ![new] = made,
                                             ![cur] = Retire(animationState, entries[cur])],
                             [animationState.tracks EXCEPT ![t] = new],
                             <<Lifecycle("interrupt", cur), Lifecycle("end", cur),
                               Lifecycle("dispose", cur), Lifecycle("start", new)>>)

\* spine_animation_state_update: the mixes of the superseded entries may
\* complete (end and dispose events), and a user event of the current
\* entry's animation may fire
Update ==
    \E t \in TrackIndexes, mixDone \in BOOLEAN, fired \in BOOLEAN :
        LET done == IF mixDone THEN EntriesOf(t, "mixingFrom") ELSE {}
            cur  == animationState.tracks[t]
            more == IF cur = 0 \/ ~fired THEN <<>>
                    ELSE <<[type |-> "event", entry |-> cur, event |-> 1]>>
        IN  AnimStep("update",
                     [e \in EntryIds |-> IF e \in done THEN Retire(animationState, entries[e])
                                         ELSE entries[e]],
                     animationState.tracks,
                     EventsFor(done, <<"end", "dispose">>) \o more)

\* spine_animation_state_apply: the current entries are applied to the skeleton
Apply ==
    AnimStep("apply",
             [e \in EntryIds |-> IF entries[e].status = "current"
                                 THEN [entries[e] EXCEPT !.applied = TRUE] ELSE entries[e]],
             animationState.tracks, <<>>)

\* spine_animation_state_clear_track: the current entry and the entries
\* mixing out behind it are ended
ClearTrack ==
    \E t \in TrackIndexes :
        LET gone == EntriesOf(t, "current") \cup EntriesOf(t, "mixingFrom")
        IN  AnimStep("clear_track",
                     [e \in EntryIds |-> IF e \in gone THEN Retire(animationState, entries[e])
                                         ELSE entries[e]],
                     [animationState.tracks EXCEPT ![t] = 0],
                     EventsFor(gone, <<"end", "dispose">>))

\* spine_animation_state_dispose_track_entry, on nullptr or on an entry the
\* animation state has let go of
DisposeTrackEntry ==
    \E e \in {0} \cup {x \in EntryIds : entries[x].status = "retired"} :
        /\ alive
        /\ entries' = IF e = 0 THEN entries ELSE disposeTrackEntry(entries, e)
        /\ lastCall' = [op |-> "dispose_track_entry", entry |-> e]
        /\ UNCHANGED <<arenaVars, drawableVars, facadeVars, animationState, events, callbacks>>

\* spine_animation_state_events_get_num_events
getNumEvents(evs) == Len(evs)

\* the events.clear() of spine_animation_state_events_reset
reset(evs) == <<>>

\* spine_animation_state_events_reset
EventsReset ==
    /\ alive
    /\ events' = reset(events)
    /\ callbacks' = 0
    /\ lastCall' = [op |-> "events_reset", before |-> events]
    /\ UNCHANGED <<arenaVars, drawableVars, facadeVars, animationState, entries>>

NextAnim ==
    SetAnimation \/ Update \/ Apply \/ ClearTrack \/ DisposeTrackEntry \/ EventsReset

SpecAnim == InitAnim /\ [][NextAnim]_vars

(***************************************************************************)
(* SpecLoad: the atlas loader, the skeleton data loaders and the y-down    *)
(* flag.                                                                   *)
(***************************************************************************)
InitLoad ==
    LET A == NewAllocator(DrawableInitialBlockSize, EmptyHeap)
    IN  /\ allocator = A.al
        /\ heap = A.heap
        /\ regions = A.regions
        /\ lastCall = [op |-> "start"]
        /\ NoDrawable
        /\ FacadeStart

\* the atlas handles a caller holds, and the absent handle
AtlasHandles == {0} \cup {h \in 1..Len(objects) : objects[h].kind = "_spine_atlas"}

\* a call of a loader: it leaves everything but the objects and the flag alone
LoadStep(objs, yd, call) ==
    /\ Len(objs) <= MaxObjects
    /\ objects' = objs
    /\ yDown' = yd
    /\ lastCall' = call
    /\ UNCHANGED <<arenaVars, drawableVars, animVars, entity, skinCall>>

\* spine_bone_set_is_y_down
SetIsYDown ==
    \E v \in {-1, 0, 1} :
        LoadStep(objects, v # 0, [op |-> "set_is_y_down", yDown |-> v])

\* spine_atlas_load
AtlasLoad ==
    \E atlasData \in AtlasTexts :
        \E R \in {spine_atlas_load(objects, atlasData)} :
            LoadStep(R.objects, yDown,
                     [op |-> "atlas_load", atlasData |-> atlasData, result |-> R.result])

\* spine_atlas_get_image_path
GetImagePath ==
    \E atlas \in AtlasHandles, index \in -1..(MaxPages + 1) :
        \E R \in {spine_atlas_get_image_path(objects, atlas, index)} :
            \E result \in R.results :
                LoadStep(objects, yDown,
                         [op |-> "atlas_get_image_path", atlas |-> atlas, index |-> index,
                          result |-> result, outside |-> R.outside])

\* spine_skeleton_data_load_json
LoadJson ==
    \E atlas \in AtlasHandles, skeletonData \in SkeletonTexts :
        \E R \in {spine_skeleton_data_load_json(objects, yDown, atlas, skeletonData)} :
            LoadStep(R.objects, R.yDown,
                     [op |-> "load_json", atlas |-> atlas, skeletonData |-> skeletonData,
                      length |-> 0, result |-> R.result, parsed |-> R.parsed,
                      before |-> yDown])

\* spine_skeleton_data_load_binary
LoadBinary ==
    \E atlas \in AtlasHandles, skeletonData \in SkeletonTexts, length \in Lengths :
        \E R \in {spine_skeleton_data_load_binary(objects, yDown, atlas, skeletonData, length)} :
            LoadStep(R.objects, R.yDown,
                     [op |-> "load_binary", atlas |-> atlas, skeletonData |-> skeletonData,
                      length |-> length, result |-> R.result, parsed |-> R.parsed,
                      before |-> yDown])

NextLoad == SetIsYDown \/ AtlasLoad \/ GetImagePath \/ LoadJson \/ LoadBinary

SpecLoad == InitLoad /\ [][NextLoad]_vars

(***************************************************************************)
(* SpecDispose: the loaders and the dispose calls of what they return.  A  *)
(* dispose call is recorded as the releases it makes: which object, and by *)
(* which function.                                                         *)
(***************************************************************************)
\* the allocation function that produced an object: the strings come from
\* strdup, the structs from SpineExtension::calloc, the runtime's objects
\* from the runtime's operator new
ProducedBy(obj) ==
    CASE obj.kind = "string" -> "strdup"
      [] obj.kind \in {"_spine_atlas", "_spine_skeleton_data_result"} -> "SpineExtension::calloc"
      [] obj.kind \in {"Atlas", "SkeletonData"} -> "new"
      [] obj.kind = "freed" -> "none"

\* the objects after those of the handles in S were released
Released(objs, S) ==
    [h \in 1..Len(objs) |-> IF h \in S THEN [kind |-> "freed"] ELSE objs[h]]

\* the handles a sequence of releases names
ObjectsOf(releases) == {releases[k].object : k \in 1..Len(releases)}

\* spine_atlas_dispose: the releases it makes, in order, and the objects left
spine_atlas_dispose(objs, atlas) ==
    IF atlas = 0 THEN [objects |-> objs, releases |-> <<>>]
    ELSE LET a == objs[atlas]
             releases ==
                 (IF a.atlas # 0
                  THEN <<[what |-> "atlas", object |-> a.atlas, by |-> "delete"]>>
                  ELSE <<>>) \o
                 (IF a.error # NullString
                  THEN <<[what |-> "error", object |-> a.error.base, by |-> "free"]>>
                  ELSE <<>>) \o
                 [i \in 1..a.numImagePaths |->
                     [what |-> "imagePath", object |-> a.imagePaths[i].base, by |-> "free"]] \o
                 <<[what |-> "imagePaths", object |-> atlas, by |-> "SpineExtension::free"],
                   [what |-> "struct", object |-> atlas, by |-> "SpineExtension::free"]>>
         IN  [objects |-> Released(objs, ObjectsOf(releases)), releases |-> releases]

\* spine_skeleton_data_result_dispose
spine_skeleton_data_result_dispose(objs, result) ==
    IF result = 0 THEN [objects |-> objs, releases |-> <<>>]
    ELSE LET r == objs[result]
             releases ==
                 (IF r.error # NullString
                  THEN <<[what |-> "error", object |-> r.error.base,
                          by |-> "SpineExtension::free"]>>
                  ELSE <<>>) \o
                 <<[what |-> "struct", object |-> result, by |-> "SpineExtension::free"]>>
         IN  [objects |-> Released(objs, ObjectsOf(releases)), releases |-> releases]

\* the result handles a caller holds, and the absent handle
ResultHandles ==
    {0} \cup {h \in 1..Len(objects) : objects[h].kind = "_spine_skeleton_data_result"}

\* spine_atlas_dispose
AtlasDispose ==
    \E atlas \in AtlasHandles :
        \E R \in {spine_atlas_dispose(objects, atlas)} :
            LoadStep(R.objects, yDown,
                     [op |-> "atlas_dispose", handle |-> atlas, releases |-> R.releases,
                      before |-> objects])

\* spine_skeleton_data_result_dispose
ResultDispose ==
    \E result \in ResultHandles :
        \E R \in {spine_skeleton_data_result_dispose(objects, result)} :
            LoadStep(R.objects, yDown,
                     [op |-> "result_dispose", handle |-> result, releases |-> R.releases,
                      before |-> objects])

NextDispose == AtlasLoad \/ LoadJson \/ LoadBinary \/ AtlasDispose \/ ResultDispose

SpecDispose == InitLoad /\ [][NextDispose]_vars

(***************************************************************************)
(* SpecAccess: the accessors.  The runtime objects are held in `entity',   *)
(* one of each kind; a handle is 1 (the object) or 0 (absent).  A float is *)
(* modelled by an integer value.                                           *)
(***************************************************************************)
\* the most bounds structs spine_skeleton_get_bounds hands out
MaxBounds == 1

\* the value of SPINE_EVENT_TYPE_DISPOSE, by the order of the event kinds
SPINE_EVENT_TYPE_DISPOSE == 4

\* the spine_event_type of an event kind
EventTypeValue(type) ==
    CASE type = "start" -> 0
      [] type = "interrupt" -> 1
      [] type = "end" -> 2
      [] type = "complete" -> 3
      [] type = "dispose" -> SPINE_EVENT_TYPE_DISPOSE
      [] type = "event" -> 5

\* the runtime objects as the model starts: a track entry, an IK constraint
\* and its data, a path and a transform constraint, a color, a listener
\* holding two events, and the bounds Skeleton::getBounds computes
Entity0 ==
    [made |-> TRUE, loop |-> FALSE, trackIndex |-> 0, bendDirection |-> 1,
     dataBendDirection |-> -1, pathActive |-> TRUE,
     transformActive |-> TRUE, colorR |-> 1, eventTypes |-> <<"start", "event">>,
     bounds |-> [x |-> -1, y |-> -2, width |-> 3, height |-> 4]]

\* what malloc'ed memory that was never written may hold
Indeterminate ==
    {[x |-> 0, y |-> 0, width |-> 0, height |-> 0],
     [x |-> 7, y |-> 0, width |-> 0, height |-> 7],
     [x |-> 7, y |-> 7, width |-> 7, height |-> 7]}

\* a loop getter that returns the flag as C++ converts it
spine_track_entry_get_loop_AsBool(ent, entry) ==
    IF entry = 0 THEN 0 ELSE IF ent.loop THEN 1 ELSE 0

\* spine_track_entry_get_loop
spine_track_entry_get_loop(ent, entry) ==
    IF entry = 0 THEN 0 ELSE IF ent.loop THEN -1 ELSE 0

\* spine_track_entry_get_track_index
spine_track_entry_get_track_index(ent, entry) ==
    IF entry = 0 THEN 0 ELSE ent.trackIndex

\* spine_ik_constraint_get_bend_direction
spine_ik_constraint_get_bend_direction(ent, constraint) ==
    IF constraint = 0 THEN 1 ELSE ent.bendDirection

\* spine_ik_constraint_data_get_bend_direction
spine_ik_constraint_data_get_bend_direction(ent, data) ==
    IF data = 0 THEN 1 ELSE ent.dataBendDirection

\* spine_path_constraint_get_is_active
spine_path_constraint_get_is_active(ent, constraint) ==
    IF constraint = 0 THEN 0 ELSE IF ent.pathActive THEN -1 ELSE 0

\* spine_transform_constraint_get_is_active (its return type is float)
spine_transform_constraint_get_is_active(ent, constraint) ==
    IF constraint = 0 THEN 0 ELSE IF ent.transformActive THEN -1 ELSE 0

\* spine_color_get_r
spine_color_get_r(ent, color) ==
    IF color = 0 THEN 0 ELSE ent.colorR

\* spine_animation_state_events_get_event_type
spine_animation_state_events_get_event_type(ent, evs, index) ==
    IF evs = 0 THEN SPINE_EVENT_TYPE_DISPOSE
    ELSE IF index < 0 THEN SPINE_EVENT_TYPE_DISPOSE
    ELSE IF index >= Len(ent.eventTypes) THEN SPINE_EVENT_TYPE_DISPOSE
    ELSE EventTypeValue(ent.eventTypes[index + 1])

\* the accessors that take one handle, and those of them that are boolean
Getters ==
    {"track_entry_get_loop", "track_entry_get_track_index",
     "ik_constraint_get_bend_direction", "ik_constraint_data_get_bend_direction",
     "path_constraint_get_is_active", "transform_constraint_get_is_active",
     "color_get_r", "bone_get_is_y_down"}
BooleanGetters ==
    {"track_entry_get_loop", "path_constraint_get_is_active",
     "transform_constraint_get_is_active", "bone_get_is_y_down"}

\* the accessor of the given name, called on handle h
Getter(name, ent, yd, h) ==
    CASE name = "track_entry_get_loop" -> spine_track_entry_get_loop(ent, h)
      [] name = "track_entry_get_track_index" -> spine_track_entry_get_track_index(ent, h)
      [] name = "ik_constraint_get_bend_direction" ->
            spine_ik_constraint_get_bend_direction(ent, h)
      [] name = "ik_constraint_data_get_bend_direction" ->
            spine_ik_constraint_data_get_bend_direction(ent, h)
      [] name = "path_constraint_get_is_active" -> spine_path_constraint_get_is_active(ent, h)
      [] name = "transform_constraint_get_is_active" ->
            spine_transform_constraint_get_is_active(ent, h)
      [] name = "color_get_r" -> spine_color_get_r(ent, h)
      [] name = "bone_get_is_y_down" -> spine_bone_get_is_y_down(yd)

\* the setters of the flags: a flag is stored as the int32 converts to
\* bool; an absent handle changes nothing
Setters ==
    {"track_entry_set_loop", "path_constraint_set_is_active",
     "transform_constraint_set_is_active"}
Setter(name, ent, h, v) ==
    IF h = 0 THEN ent
    ELSE CASE name = "track_entry_set_loop" -> [ent EXCEPT !.loop = (v # 0)]
           [] name = "path_constraint_set_is_active" -> [ent EXCEPT !.pathActive = (v # 0)]
           [] name = "transform_constraint_set_is_active" ->
                 [ent EXCEPT !.transformActive = (v # 0)]

\* spine_skeleton_get_bounds: the bounds structs it may hand out.  The
\* struct is malloc'ed; without a skeleton nothing is written to it
spine_skeleton_get_bounds(ent, skeletonHandle) ==
    IF skeletonHandle = 0
    THEN {[kind |-> "_spine_bounds", x |-> g.x, y |-> g.y, width |-> g.width,
           height |-> g.height] : g \in Indeterminate}
    ELSE {[kind |-> "_spine_bounds", x |-> ent.bounds.x, y |-> ent.bounds.y,
           width |-> ent.bounds.width, height |-> ent.bounds.height]}

\* spine_bounds_get_x, _y, _width, _height
spine_bounds_get_x(objs, bounds) == IF bounds = 0 THEN 0 ELSE objs[bounds].x
spine_bounds_get_y(objs, bounds) == IF bounds = 0 THEN 0 ELSE objs[bounds].y
spine_bounds_get_width(objs, bounds) == IF bounds = 0 THEN 0 ELSE objs[bounds].width
spine_bounds_get_height(objs, bounds) == IF bounds = 0 THEN 0 ELSE objs[bounds].height

\* the bones of the skeleton, each in a state the runtime computed: its world
\* rotations, derived from the world matrix, and the rotations it reports for
\* a world rotation of zero brought into its local space
Bones ==
    {[worldRotationX |-> 0, worldRotationY |-> 90,
      worldToLocalRotationX |-> 0, worldToLocalRotationY |-> 90],
     [worldRotationX |-> 30, worldRotationY |-> 120,
      worldToLocalRotationX |-> -30, worldToLocalRotationY |-> 60],
     [worldRotationX |-> 45, worldRotationY |-> 100,
      worldToLocalRotationX |-> -10, worldToLocalRotationY |-> 45]}

\* spine_bone_get_world_to_local_rotation_x
spine_bone_get_world_to_local_rotation_x(b, bone) ==
    IF bone = 0 THEN 0 ELSE b.worldToLocalRotationX

\* spine_bone_get_world_to_local_rotation_y
spine_bone_get_world_to_local_rotation_y(b, bone) ==
    IF bone = 0 THEN 0 ELSE b.worldToLocalRotationY

\* spine_bone_get_world_rotation_x
spine_bone_get_world_rotation_x(b, bone) ==
    IF bone = 0 THEN 0 ELSE b.worldRotationX

\* spine_bone_get_world_rotation_y: it returns getWorldToLocalRotationY()
spine_bone_get_world_rotation_y(b, bone) ==
    IF bone = 0 THEN 0 ELSE b.worldToLocalRotationY

\* the rotation accessors of a bone
BoneGetters ==
    {"world_rotation_x", "world_rotation_y",
     "world_to_local_rotation_x", "world_to_local_rotation_y"}
BoneGetter(name, b, bone) ==
    CASE name = "world_rotation_x" -> spine_bone_get_world_rotation_x(b, bone)
      [] name = "world_rotation_y" -> spine_bone_get_world_rotation_y(b, bone)
      [] name = "world_to_local_rotation_x" ->
            spine_bone_get_world_to_local_rotation_x(b, bone)
      [] name = "world_to_local_rotation_y" ->
            spine_bone_get_world_to_local_rotation_y(b, bone)

InitAccess ==
    LET A == NewAllocator(DrawableInitialBlockSize, EmptyHeap)
    IN  /\ allocator = A.al
        /\ heap = A.heap
        /\ regions = A.regions
        /\ lastCall = [op |-> "start"]
        /\ NoDrawable
        /\ yDown = FALSE
        /\ objects = <<>>
        /\ entity = Entity0
        /\ skinCall = NoSkinCall

\* a call of an accessor or a setter
AccessStep(objs, ent, call) ==
    /\ objects' = objs
    /\ entity' = ent
    /\ lastCall' = call
    /\ UNCHANGED <<arenaVars, drawableVars, animVars, yDown, skinCall>>

\* one of the accessors, on the object or on an absent handle
CallGetter ==
    \E name \in Getters, h \in {0, 1} :
        AccessStep(objects, entity,
                   [op |-> "get", name |-> name, handle |-> h,
                    result |-> Getter(name, entity, yDown, h), before |-> entity])

\* spine_animation_state_events_get_event_type
GetEventType ==
    \E h \in {0, 1}, index \in -1..2 :
        AccessStep(objects, entity,
                   [op |-> "get", name |-> "events_get_event_type", handle |-> h,
                    index |-> index,
                    result |-> spine_animation_state_events_get_event_type(entity, h, index),
                    before |-> entity])

\* one of the setters
CallSetter ==
    \E name \in Setters, h \in {0, 1}, v \in {-1, 0, 1, 2} :
        AccessStep(objects, Setter(name, entity, h, v),
                   [op |-> "set", name |-> name, handle |-> h, value |-> v])

\* spine_skeleton_get_bounds
GetBounds ==
    \E skeletonHandle \in {0, 1} :
        \E b \in spine_skeleton_get_bounds(entity, skeletonHandle) :
            /\ Len(objects) < MaxBounds
            /\ AccessStep(Append(objects, b), entity,
                          [op |-> "get_bounds", skeleton |-> skeletonHandle,
                           result |-> Len(objects) + 1])

\* one of the rotation accessors, on a bone of the skeleton or on an absent
\* handle
GetBoneRotation ==
    \E name \in BoneGetters, b \in Bones, h \in {0, 1} :
        AccessStep(objects, entity,
                   [op |-> "get_bone", name |-> name, handle |-> h, bone |-> b,
                    result |-> BoneGetter(name, b, h)])

NextAccess ==
    CallGetter \/ GetEventType \/ CallSetter \/ SetIsYDown \/ GetBounds \/ GetBoneRotation

SpecAccess == InitAccess /\ [][NextAccess]_vars

(***************************************************************************)
(* SpecEvents: the event buffer of a drawable's listener, filled by the    *)
(* listener's callback and read through the indexed getters.  The getters' *)
(* index is a signed integer of IndexBits bits and the buffer's size an    *)
(* unsigned integer of twice that width, as int32_t is to size_t.          *)
(***************************************************************************)
\* the width of the getters' index
IndexBits == 4

\* the values of the index type
Indexes == (-(2 ^ (IndexBits - 1))) .. (2 ^ (IndexBits - 1) - 1)

\* the conversion of the index to the unsigned type of events.size(), which
\* the comparison index >= events.size() performs on its left operand
ToSizeT(index) == index % (2 ^ (2 * IndexBits))

\* the triples the animation state hands to the listener
RecordedTriples ==
    {[type |-> "start", entry |-> 1, event |-> 0],
     [type |-> "event", entry |-> 1, event |-> 1],
     [type |-> "dispose", entry |-> 2, event |-> 0]}

\* a track entry getter that compares the index as a signed integer: a
\* negative index passes the test and reads in front of the buffer
spine_animation_state_events_get_track_entry_Signed(evs, h, index) ==
    IF h = 0 THEN 0
    ELSE IF index >= Len(evs) THEN 0
    ELSE IF index < 0 THEN -1
    ELSE evs[index + 1].entry

\* spine_animation_state_events_get_track_entry
spine_animation_state_events_get_track_entry(evs, h, index) ==
    IF h = 0 THEN 0
    ELSE IF ToSizeT(index) >= Len(evs) THEN 0
    ELSE evs[ToSizeT(index) + 1].entry

\* spine_animation_state_events_get_event
spine_animation_state_events_get_event(evs, h, index) ==
    IF h = 0 THEN 0
    ELSE IF ToSizeT(index) >= Len(evs) THEN 0
    ELSE evs[ToSizeT(index) + 1].event

\* the listener as the event type getter reads it
ListenerOf(evs) == [eventTypes |-> [k \in 1..Len(evs) |-> evs[k].type]]

\* the indexed getters of the event buffer
EventGetters == {"get_event_type", "get_track_entry", "get_event"}
EventGetter(name, evs, h, index) ==
    CASE name = "get_event_type" ->
            spine_animation_state_events_get_event_type(ListenerOf(evs), h, index)
      [] name = "get_track_entry" ->
            spine_animation_state_events_get_track_entry(evs, h, index)
      [] name = "get_event" -> spine_animation_state_events_get_event(evs, h, index)

\* EventListener::callback, called by the animation state with a triple
ListenerCallback ==
    \E t \in RecordedTriples :
        /\ alive
        /\ Len(events) < MaxEvents
        /\ events' = callback(events, t.type, t.entry, t.event)
        /\ callbacks' = callbacks + 1
        /\ lastCall' = [op |-> "callback"]
        /\ UNCHANGED <<arenaVars, drawableVars, facadeVars, animationState, entries>>

\* one of the indexed getters, on the listener or on an absent handle
GetEventField ==
    \E name \in EventGetters, h \in {0, 1}, index \in Indexes :
        /\ alive
        /\ lastCall' = [op |-> "events_get", name |-> name, handle |-> h,
                        index |-> index,
                        result |-> EventGetter(name, events, h, index)]
        /\ UNCHANGED <<arenaVars, drawableVars, facadeVars, animVars>>

NextEvents == ListenerCallback \/ GetEventField \/ EventsReset

SpecEvents == InitAnim /\ [][NextEvents]_vars

(***************************************************************************)
(* SpecSkin: spine_skin_get_entries, one loop iteration per step.  A skin  *)
(* is its attachment map: one bucket of entries per slot index.            *)
(***************************************************************************)
\* the bits of the numEntries counter the model keeps
CountBits == 4

\* the buckets a slot index may have, and the skins: two slot indices
BucketsOf(slotIndex) ==
    {<<>>,
     <<[slotIndex |-> slotIndex, name |-> "a", attachment |-> 10 * slotIndex + 1]>>,
     <<[slotIndex |-> slotIndex, name |-> "a", attachment |-> 10 * slotIndex + 1],
       [slotIndex |-> slotIndex, name |-> "b", attachment |-> 10 * slotIndex + 2]>>}
Skins == {<<b0, b1>> : b0 \in BucketsOf(0), b1 \in BucketsOf(1)}

\* the entries of a skin, bucket after bucket
RECURSIVE EntriesOfSkin(_)
EntriesOfSkin(buckets) ==
    IF buckets = <<>> THEN <<>> ELSE Head(buckets) \o EntriesOfSkin(Tail(buckets))

\* Skin::getAttachments(): an iterator at the first bucket
getAttachments == [slot |-> 1, entry |-> 1]

RECURSIVE Settle(_, _)
\* the position AttachmentMap::Entries::hasNext settles on: it passes over
\* the buckets that are used up, and over no entry
Settle(buckets, it) ==
    IF it.slot > Len(buckets) THEN it
    ELSE IF it.entry > Len(buckets[it.slot])
    THEN Settle(buckets, [slot |-> it.slot + 1, entry |-> 1])
    ELSE it

\* AttachmentMap::Entries::hasNext
hasNext(buckets, it) == Settle(buckets, it).slot <= Len(buckets)

\* AttachmentMap::Entries::next: the entry, and the iterator moved past it
next(buckets, it) ==
    LET at == Settle(buckets, it)
    IN  [entry |-> buckets[at.slot][at.entry],
         it |-> [slot |-> at.slot, entry |-> at.entry + 1]]

InitSkin ==
    LET A == NewAllocator(DrawableInitialBlockSize, EmptyHeap)
    IN  /\ allocator = A.al
        /\ heap = A.heap
        /\ regions = A.regions
        /\ lastCall = [op |-> "start"]
        /\ NoDrawable
        /\ FacadeStart

\* a step of the call in progress
SkinStep(call) ==
    /\ skinCall' = call
    /\ lastCall' = [op |-> "skin_get_entries"]
    /\ UNCHANGED <<arenaVars, drawableVars, animVars, yDown, objects, entity>>

\* spine_skin_get_entries is called: on an absent skin it returns nullptr, on
\* a skin it callocs the snapshot and enters the counting loop
SkinGetEntries ==
    /\ skinCall.pc \in {"idle", "done"}
    /\ \/ SkinStep([pc |-> "done", present |-> FALSE, skin |-> <<>>, result |-> 0,
                    numEntries |-> 0, it |-> getAttachments, i |-> 0, out |-> <<>>,
                    outside |-> FALSE])
       \/ \E skin \in Skins :
            SkinStep([pc |-> "count", present |-> TRUE, skin |-> skin, result |-> 0,
                      numEntries |-> 0, it |-> getAttachments, i |-> 0, out |-> <<>>,
                      outside |-> FALSE])

\* what the counting loop leaves for the copy loop: the entries array of
\* numEntries elements and a fresh iterator
EnterCopy(call) == [call EXCEPT !.pc = "copy", !.it = getAttachments, !.i = 0]

\* while (mapEntries.hasNext()) entries->numEntries++;  The iterator is not
\* moved; the counter is kept to CountBits bits
CountStep ==
    /\ skinCall.pc = "count"
    /\ IF hasNext(skinCall.skin, skinCall.it)
       THEN SkinStep([skinCall EXCEPT !.numEntries = (@ + 1) % (2 ^ CountBits)])
       ELSE SkinStep(EnterCopy(skinCall))

\* the copy loop: entries->entries[i++] = {slotIndex, name, attachment}, then
\* the return of the snapshot
CopyStep ==
    /\ skinCall.pc = "copy"
    /\ IF hasNext(skinCall.skin, skinCall.it)
       THEN \E n \in {next(skinCall.skin, skinCall.it)} :
                SkinStep([skinCall EXCEPT !.out = Append(@, n.entry),
                                          !.it = n.it,
                                          !.i = @ + 1,
                                          !.outside = @ \/ skinCall.i >= skinCall.numEntries])
       ELSE SkinStep([skinCall EXCEPT !.pc = "done", !.result = 1])

NextSkin == SkinGetEntries \/ CountStep \/ CopyStep

SpecSkin == InitSkin /\ [][NextSkin]_vars

\* a call that was entered keeps running
FairSpecSkin == SpecSkin /\ WF_vars(CountStep \/ CopyStep)

(***************************************************************************)
(* Claims about the arena (SpecArena).                                     *)
(***************************************************************************)
\* the allocation mark of the block with backing memory id in bs, 0 if none
MarkOf(bs, id) ==
    IF \E i \in 1..Len(bs) : bs[i].memory = id
    THEN bs[CHOOSE i \in 1..Len(bs) : bs[i].memory = id].allocated
    ELSE 0

\* the least multiple of 16 that is at least n
RoundUp16(n) == CHOOSE m \in n..(n + 15) : m % 16 = 0

\* C1: an allocate of n bytes advances the serving block's mark by exactly n
\* when n mod 16 = 0 and by n + (16 - n mod 16) otherwise; the advance is a
\* multiple of 16 and at least n.
C1_AlignedAdvance ==
    lastCall.op = "allocate" =>
        LET n   == lastCall.numBytes
            adv == MarkOf(allocator.blocks, lastCall.ptr.memory)
                     - MarkOf(lastCall.before, lastCall.ptr.memory)
        IN  /\ adv = (IF n % 16 = 0 THEN n ELSE n + (16 - (n % 16)))
            /\ adv % 16 = 0
            /\ adv >= n
            /\ lastCall.ptr.len = adv

C1_Witness ==
    /\ lastCall.op = "allocate"
    /\ lastCall.numBytes = 17
    /\ MarkOf(allocator.blocks, lastCall.ptr.memory) = 48
    /\ MarkOf(lastCall.before, lastCall.ptr.memory) = 16

\* C2: when the aligned size exceeds the tail block's free space, exactly one
\* block of size max(initialBlockSize, alignedSize) is appended and serves the
\* whole allocation; when it fits (also exactly), no block is appended and the
\* tail block serves it.
C2_GrowOrServeFromTail ==
    lastCall.op = "allocate" =>
        LET a      == RoundUp16(lastCall.numBytes)
            before == lastCall.before
            after  == allocator.blocks
            tail   == before[Len(before)]
            p      == lastCall.ptr
        IN  IF a > tail.size - tail.allocated
            THEN /\ Len(after) = Len(before) + 1
                 /\ \A i \in 1..Len(before) : after[i] = before[i]
                 /\ after[Len(after)].size = Max(allocator.initialBlockSize, a)
                 /\ after[Len(after)].allocated = a
                 /\ p = [memory |-> after[Len(after)].memory, offset |-> 0, len |-> a]
                 /\ \A i \in 1..Len(before) : before[i].memory # p.memory
            ELSE /\ Len(after) = Len(before)
                 /\ \A i \in 1..(Len(before) - 1) : after[i] = before[i]
                 /\ after[Len(after)] = [tail EXCEPT !.allocated = @ + a]
                 /\ p = [memory |-> tail.memory, offset |-> tail.allocated, len |-> a]

C2_Witness ==
    /\ lastCall.op = "allocate"
    /\ lastCall.numBytes = 2049
    /\ Len(lastCall.before) = 1
    /\ lastCall.before[1].allocated = 16
    /\ Len(allocator.blocks) = 2
    /\ allocator.blocks[2].size = 2064

\* the exact fit: 2048 bytes asked of an untouched 2048-byte block
C2_ExactFitReached ==
    /\ lastCall.op = "allocate"
    /\ lastCall.numBytes = 2048
    /\ lastCall.before = <<[size |-> 2048, allocated |-> 0, memory |-> 1]>>
    /\ Len(allocator.blocks) = 1

\* C3: after compress() the arena holds exactly one block, of size
\* max(initialBlockSize, sum of the sizes of the blocks before the call), with
\* allocation mark 0.
C3_CompressToOneBlock ==
    lastCall.op = "compress" =>
        /\ Len(allocator.blocks) = 1
        /\ allocator.blocks[1].size =
              Max(allocator.initialBlockSize, SumSizes(lastCall.before))
        /\ allocator.blocks[1].allocated = 0

C3_Witness ==
    /\ lastCall.op = "compress"
    /\ Len(lastCall.before) = 3
    /\ lastCall.before[1].allocated > 0
    /\ allocator.blocks[1].size > 3 * DrawableInitialBlockSize

\* the block of the list bs whose memory is id
BlockOf(bs, id) == bs[CHOOSE i \in 1..Len(bs) : bs[i].memory = id]

\* the regions p and q share no byte
Disjoint(p, q) ==
    \/ p.memory # q.memory
    \/ p.offset + p.len <= q.offset
    \/ q.offset + q.len <= p.offset

\* C26: in every state reachable by allocate and compress calls with
\* non-negative request sizes the block list is non-empty, every block has
\* 0 <= allocated <= size with allocated a multiple of 16, every region
\* returned since the last compress lies entirely inside one block, and no
\* two such regions overlap.
C26_ArenaBlockInvariant ==
    /\ Len(allocator.blocks) >= 1
    /\ \A i \in 1..Len(allocator.blocks) :
         LET b == allocator.blocks[i]
         IN  /\ 0 <= b.allocated
             /\ b.allocated <= b.size
             /\ b.allocated % 16 = 0
             /\ b.memory \in heap.live
             /\ \A j \in 1..Len(allocator.blocks) :
                  i # j => allocator.blocks[j].memory # b.memory
    /\ \A k \in 1..Len(regions) :
         /\ \E i \in 1..Len(allocator.blocks) :
              allocator.blocks[i].memory = regions[k].memory
         /\ 0 <= regions[k].offset
         /\ 0 <= regions[k].len
         /\ regions[k].offset + regions[k].len
              <= BlockOf(allocator.blocks, regions[k].memory).allocated
    /\ \A j, k \in 1..Len(regions) : j # k => Disjoint(regions[j], regions[k])

\* an arena of two blocks that served three regions since its last compress,
\* two of them back to back in one block, the last for a request that is not
\* a multiple of 16
C26_Witness ==
    /\ lastCall.op = "allocate"
    /\ lastCall.numBytes % 16 # 0
    /\ Len(allocator.blocks) >= 2
    /\ Len(regions) = MaxAllocs
    /\ \E j, k \in 1..Len(regions) :
         /\ regions[j].memory = regions[k].memory
         /\ regions[j].len > 0
         /\ regions[j].offset + regions[j].len = regions[k].offset
    /\ C26_ArenaBlockInvariant

(***************************************************************************)
(* Claims about the render of a drawable (Spec).                           *)
(***************************************************************************)
\* the region p lies inside a block the arena holds, in memory that is live
InArena(p) ==
    \E k \in 1..Len(allocator.blocks) :
        LET b == allocator.blocks[k]
        IN  /\ b.memory = p.memory
            /\ b.memory \in heap.live
            /\ 0 <= p.offset
            /\ p.offset + p.len <= b.allocated
            /\ b.allocated <= b.size

\* p is a region the arena served since its last compress
Served(p) == \E k \in 1..Len(regions) : regions[k] = p

RECURSIVE WellLinked(_, _, _)
\* following next from pointer p reaches nullptr within fuel commands, and
\* every pointer on the way is that of a command held in arena memory
WellLinked(cmds, p, fuel) ==
    IF p = Null THEN TRUE
    ELSE IF fuel = 0 THEN FALSE
    ELSE IF ~\E k \in 1..Len(cmds) : cmds[k].self = p THEN FALSE
    ELSE WellLinked(cmds, cmds[CmdAt(cmds, p)].next, fuel - 1)

RECURSIVE Chain(_, _, _)
\* the commands reached from pointer p by following next
Chain(cmds, p, fuel) ==
    IF p = Null \/ fuel = 0 \/ ~\E k \in 1..Len(cmds) : cmds[k].self = p THEN <<>>
    ELSE LET c == cmds[CmdAt(cmds, p)] IN <<c>> \o Chain(cmds, c.next, fuel - 1)

\* the list the caller walks from the head
CommandList == Chain(commands, renderCommand, Len(commands) + 1)

\* the walk from the head ends at nullptr and meets no dangling pointer
ListWellLinked == WellLinked(commands, renderCommand, Len(commands) + 1)

\* the arena regions of command c: the struct and its four arrays
CommandRegions(c) == {c.self, c.positions, c.uvs, c.colors, c.indices}

\* every command of the list, and each of its arrays, is arena memory
CommandsInArena ==
    /\ ListWellLinked
    /\ \A k \in 1..Len(CommandList) :
        LET c == CommandList[k]
        IN  /\ \A p \in CommandRegions(c) : InArena(p) /\ Served(p)
            /\ c.self.len >= SizeofRenderCommand
            /\ c.positions.len >= SizeofFloat * 2 * c.numVertices
            /\ c.uvs.len >= SizeofFloat * 2 * c.numVertices
            /\ c.colors.len >= SizeofInt32 * c.numVertices
            /\ c.indices.len >= SizeofUint16 * Len(c.indicesData)

\* a step of C4: a render releases every block that held the list before it
\* and builds its list from nothing; any other call but dispose leaves the
\* arena, its memory and the list alone
C4_Step ==
    /\ lastCall'.op = "render" =>
         /\ \A k \in 1..Len(commands) :
              \A p \in CommandRegions(commands[k]) : p.memory \in heap'.released
         /\ \A k \in 1..Len(allocator.blocks) :
              allocator.blocks[k].memory \in heap'.released
         /\ \A k \in 1..Len(commands') : commands'[k].self.len > 0 /\
              \E j \in 1..Len(regions') : regions'[j] = commands'[k].self
         /\ renderCommand' = lastCall'.result
         /\ (commands' = <<>>) = (renderCommand' = Null)
    /\ lastCall'.op \notin {"render", "dispose"} =>
         /\ UNCHANGED <<allocator, regions, commands, renderCommand>>
         /\ heap'.live = heap.live
         /\ heap'.released = {}

\* C4: the commands reachable from the head returned by the most recent
\* render(), and their position, uv, color and index arrays, lie inside blocks
\* the drawable's arena holds; the next render() releases every block that
\* held the previous list and starts its list from an absent head; no other
\* facade call releases or overwrites command memory in between.
C4_CommandLifetime == [](alive => CommandsInArena) /\ [][C4_Step]_vars

\* a second render: the arena grew during the frame before and holds the
\* commands of this frame in more than one block
C4_Witness ==
    /\ lastCall.op = "render"
    /\ lastCall.before[1].allocated > 0
    /\ Len(allocator.blocks) >= 2
    /\ Len(CommandList) >= 2
    /\ \E k \in 1..Len(CommandList) : CommandList[k].self.memory # CommandList[k].uvs.memory
    /\ CommandsInArena

\* C5: whatever the draw order holds, the clipper is not clipping when
\* spine_skeleton_drawable_render returns.
C5_ClipClosedAfterRender ==
    lastCall.op = "render" => ~isClipping(clipping)

\* a render whose last slot in draw order opened a clip
C5_Witness ==
    /\ lastCall.op = "render"
    /\ lastCall.log[NumSlots].did = "clipStart"
    /\ \E k \in 1..(NumSlots - 1) : lastCall.log[k].did = "hidden"
    /\ ~isClipping(clipping)

\* the slot drawn at place k of the draw order
DrawnSlot(k) == skeleton.slots[skeleton.drawOrder[k]]

\* slot is drawn: it has a Region or Mesh attachment and passes every skip rule
Drawable(slot) ==
    /\ slot.attachment.kind \in {"Region", "Mesh"}
    /\ Alpha(slot.color) # 0
    /\ slot.boneActive
    /\ Alpha(slot.attachment.color) # 0

\* the draw order is a drawable Clipping slot followed by drawable Region slots
ClipThenRegions ==
    /\ DrawnSlot(1).attachment.kind = "Clipping"
    /\ Alpha(DrawnSlot(1).color) # 0
    /\ DrawnSlot(1).boneActive
    /\ \A k \in 2..NumSlots : DrawnSlot(k).attachment.kind = "Region" /\ Drawable(DrawnSlot(k))

\* the command of the list written for the slot with slot data d
CommandOf(d) == CommandList[CHOOSE k \in 1..Len(CommandList) : CommandList[k].slot = d]

\* the command of slot data d carries the clipper's output
PassedThroughClipper(d) ==
    /\ CommandOf(d).positionsData.src = "clipped"
    /\ CommandOf(d).uvsData.src = "clippedUVs"

\* C6 as claimed: with a Clipping slot followed by Region slots, every Region
\* slot after the Clipping slot has its geometry passed through the clipper.
C6_AllRegionsClipped ==
    (lastCall.op = "render" /\ ClipThenRegions) =>
        \A k \in 2..NumSlots :
            /\ \E j \in 1..Len(CommandList) : CommandList[j].slot = DrawnSlot(k).data
            /\ PassedThroughClipper(DrawnSlot(k).data)

\* the clip opened at place 1 is still open when place k is drawn: no place
\* before k, after the Clipping slot, is the clipping attachment's end slot
ClipOpenAt(k) ==
    \A j \in 2..(k - 1) : DrawnSlot(j).data # DrawnSlot(1).attachment.endSlot

\* C6 as amended: with a Clipping slot followed by Region slots, a Region slot
\* has its geometry passed through the clipper exactly when no slot between
\* the Clipping slot and it is the clipping attachment's end slot; the Region
\* slots after the end slot are written unclipped.
C6_RegionsClippedUpToEndSlot ==
    (lastCall.op = "render" /\ ClipThenRegions) =>
        \A k \in 2..NumSlots :
            /\ \E j \in 1..Len(CommandList) : CommandList[j].slot = DrawnSlot(k).data
            /\ PassedThroughClipper(DrawnSlot(k).data) = ClipOpenAt(k)
            /\ lastCall.log[k].clipped = ClipOpenAt(k)

\* the clip ends at the first Region slot: the Region slot after it is
\* written unclipped
C6_Witness ==
    /\ lastCall.op = "render"
    /\ ClipThenRegions
    /\ DrawnSlot(1).attachment.endSlot = DrawnSlot(2).data
    /\ PassedThroughClipper(DrawnSlot(2).data)
    /\ ~PassedThroughClipper(DrawnSlot(3).data)

\* the number of places k..NumSlots of the draw order whose slot is drawn
RECURSIVE CountDrawable(_)
CountDrawable(k) ==
    IF k > NumSlots THEN 0
    ELSE (IF Drawable(DrawnSlot(k)) THEN 1 ELSE 0) + CountDrawable(k + 1)

\* C7: a slot whose Region or Mesh attachment has own tint alpha 0 contributes
\* no command to the list render() returns, also when the slot's alpha is
\* above 0 and its bone is active; the list holds as many commands as there
\* are slots that pass all skip rules.
C7_SkipRule ==
    lastCall.op = "render" =>
        /\ \A k \in 1..NumSlots :
             (DrawnSlot(k).attachment.kind \in {"Region", "Mesh"}
                /\ Alpha(DrawnSlot(k).attachment.color) = 0)
             => ~\E j \in 1..Len(CommandList) : CommandList[j].slot = DrawnSlot(k).data
        /\ Len(CommandList) = CountDrawable(1)
        /\ ListWellLinked

\* a transparent Region and a transparent Mesh on visible slots with active
\* bones, next to a slot that is drawn
C7_Witness ==
    /\ lastCall.op = "render"
    /\ \E k \in 1..NumSlots :
         /\ DrawnSlot(k).attachment.kind = "Region"
         /\ Alpha(DrawnSlot(k).attachment.color) = 0
         /\ Alpha(DrawnSlot(k).color) > 0 /\ DrawnSlot(k).boneActive
    /\ \E k \in 1..NumSlots :
         /\ DrawnSlot(k).attachment.kind = "Mesh"
         /\ Alpha(DrawnSlot(k).attachment.color) = 0
    /\ Len(CommandList) = 1

\* C19: when a clip is open and the clipper's output for a Region or Mesh
\* slot is empty, render allocates and appends no command for that slot, so
\* the list it returns holds no command with zero vertices.
C19_NoEmptyCommand ==
    lastCall.op = "render" =>
        /\ \A k \in 1..Len(CommandList) : CommandList[k].numVertices > 0
        /\ \A k \in 1..Len(lastCall.log) :
             LET e == lastCall.log[k]
             IN  (e.did = "emit" /\ e.clipped
                    /\ skeleton.slots[e.slot].attachment.hit = "outside")
                 => \A j \in 1..Len(commands) : commands[j].slot # e.slot

\* C21 as claimed: in the render loop a slot with no assigned attachment
\* closes the active clip for that slot, as the zero-alpha / inactive-bone
\* branch does, before the loop moves to the next slot: a clip whose end slot
\* is such a slot no longer clips the slot drawn after it.
C21_NoAttachmentClosesClip ==
    lastCall.op = "render" =>
        \A k \in 1..Len(lastCall.log) :
            lastCall.log[k].did = "noAttachment" =>
                /\ lastCall.log[k].clipEnd
                /\ (/\ 1 < k /\ k < Len(lastCall.log)
                    /\ lastCall.log[k - 1].did = "clipStart"
                    /\ DrawnSlot(k - 1).attachment.endSlot = DrawnSlot(k).data
                    /\ lastCall.log[k + 1].did = "emit")
                   => ~lastCall.log[k + 1].clipped

\* the place of the slot with slot data d in the draw order
PlaceOf(d) == CHOOSE k \in 1..NumSlots : skeleton.drawOrder[k] = d

\* the commands of the list written for the slot with slot data d
CommandsOfSlot(d) == {j \in 1..Len(CommandList) : CommandList[j].slot = d}

\* C22: the list render() returns is a finite, acyclic singly linked list
\* that ends at an absent next pointer; it holds one command per emitting
\* slot, in the relative order of the slots in the skeleton's current draw
\* order; the head is absent exactly when no slot emitted.
C22_CommandListOrder ==
    lastCall.op = "render" =>
        /\ ListWellLinked
        /\ Len(CommandList) = Len(commands)
        /\ \A j, k \in 1..Len(CommandList) :
             j # k => CommandList[j].self # CommandList[k].self
        /\ Len(CommandList) > 0 => CommandList[Len(CommandList)].next = Null
        /\ \A k \in 1..NumSlots :
             Cardinality(CommandsOfSlot(DrawnSlot(k).data))
                 = IF Drawable(DrawnSlot(k)) THEN 1 ELSE 0
        /\ \A j, k \in 1..Len(CommandList) :
             j < k => PlaceOf(CommandList[j].slot) < PlaceOf(CommandList[k].slot)
        /\ lastCall.result = renderCommand
        /\ (renderCommand = Null) = (\A k \in 1..NumSlots : ~Drawable(DrawnSlot(k)))

\* a list of three commands whose slots come in draw order, the reverse of
\* their order among the skeleton's slots
C22_Witness ==
    /\ lastCall.op = "render"
    /\ Len(CommandList) = NumSlots
    /\ CommandList[1].slot > CommandList[2].slot
    /\ PlaceOf(CommandList[1].slot) < PlaceOf(CommandList[2].slot)
    /\ CommandList[NumSlots].next = Null

\* a render none of whose slots emitted: the head is absent
C22_EmptyListReached ==
    /\ lastCall.op = "render"
    /\ renderCommand = Null
    /\ \E k \in 1..NumSlots : DrawnSlot(k).attachment.kind = "Region"

\* the slot at place k holds a Region that is drawn while no clip is open
UnclippedRegionAt(k) ==
    /\ DrawnSlot(k).attachment.kind = "Region"
    /\ Drawable(DrawnSlot(k))
    /\ ~lastCall.log[k].clipped

\* C23: for an unclipped drawable Region slot the emitted command has
\* numVertices = 4, numIndices = 6 with indices exactly [0,1,2,2,3,0], uvs
\* equal to the attachment's UV array, blend mode equal to the slot data's
\* blend mode, atlas page equal to the region's page index, and the same
\* packed color in every one of its numVertices color entries.
C23_RegionCommandContent ==
    lastCall.op = "render" =>
        \A k \in 1..NumSlots : UnclippedRegionAt(k) =>
            /\ Cardinality(CommandsOfSlot(DrawnSlot(k).data)) = 1
            /\ LET c == CommandOf(DrawnSlot(k).data)
               IN  /\ c.numVertices = 4
                   /\ c.numIndices = 6
                   /\ c.indicesData = <<0, 1, 2, 2, 3, 0>>
                   /\ c.uvsData = [src |-> "attachmentUVs", slot |-> DrawnSlot(k).data,
                                   floats |-> 8]
                   /\ c.positionsData.src = "world"
                   /\ c.blendMode = DrawnSlot(k).data % 4
                   /\ c.atlasPage = DrawnSlot(k).attachment.page
                   /\ Len(c.colorsData) = c.numVertices
                   /\ \A ii \in 1..c.numVertices : c.colorsData[ii] = c.colorsData[1]

\* two unclipped Region slots with different blend modes are drawn next to a
\* Mesh slot, whose command has other counts and another atlas page
C23_Witness ==
    /\ lastCall.op = "render"
    /\ \E j, k \in 1..NumSlots :
         /\ j # k
         /\ UnclippedRegionAt(j) /\ UnclippedRegionAt(k)
         /\ CommandOf(DrawnSlot(j).data).blendMode # CommandOf(DrawnSlot(k).data).blendMode
         /\ CommandOf(DrawnSlot(j).data).indicesData = quadIndices
    /\ \E k \in 1..NumSlots :
         /\ DrawnSlot(k).attachment.kind = "Mesh"
         /\ Drawable(DrawnSlot(k))
         /\ CommandOf(DrawnSlot(k).data).atlasPage # 1

\* the sizes of the regions a pass was served, in the order of its requests
RequestsOf(rs) == [k \in 1..Len(rs) |-> rs[k].len]

\* a step of C24: a render that follows a render and makes the same requests
\* is served from one block, the one compress made with the capacity the
\* arena had, and leaves the arena with that capacity
C24_Step ==
    (/\ lastCall.op = "render"
     /\ lastCall'.op = "render"
     /\ RequestsOf(regions') = RequestsOf(regions))
    => /\ Len(allocator'.blocks) = 1
       /\ allocator'.blocks[1].size = SumSizes(allocator.blocks)
       /\ SumSizes(allocator'.blocks) = SumSizes(allocator.blocks)
       /\ \A k \in 1..Len(regions') :
            /\ regions'[k].memory = allocator'.blocks[1].memory
            /\ regions'[k].offset + regions'[k].len <= allocator'.blocks[1].size

\* C24: if two consecutive render passes perform the same sequence of
\* allocation requests, the second pass serves all of them from the single
\* block produced by compress() and appends no block, so the arena's total
\* capacity after the second pass equals its capacity after the first.
C24_ArenaStabilises == [][C24_Step]_vars

\* the second of two renders of one skeleton (slot 1 still holds the Region it
\* was created with, so no attachment was set): the first pass grew the arena
\* to two blocks, the second is served from one block of their total size
C24_Witness ==
    /\ lastCall.op = "render"
    /\ skeleton.slots[1].attachment.kind = "Region"
    /\ Len(lastCall.before) >= 2
    /\ Len(allocator.blocks) = 1
    /\ allocator.blocks[1].size = SumSizes(lastCall.before)
    /\ allocator.blocks[1].allocated > DrawableInitialBlockSize

\* the memory ids of the blocks in the list bs
MemoryOf(bs) == {bs[i].memory : i \in 1..Len(bs)}

\* the blocks the heap holds are the blocks of the arena's list, each once,
\* and no release was of memory that was not held
BlocksAccounted ==
    /\ ~heap.invalidFree
    /\ heap.live = MemoryOf(allocator.blocks)
    /\ Cardinality(heap.live) = Len(allocator.blocks)
    /\ ~alive => heap.live = {}

\* a step of C27: render and dispose release every block the arena held,
\* each of them still held when it is released; no other call releases one
C27_Step ==
    /\ lastCall'.op \in {"render", "dispose"} =>
         /\ heap'.released = MemoryOf(allocator.blocks)
         /\ heap'.released \subseteq heap.live
    /\ lastCall'.op \notin {"render", "dispose"} =>
         heap'.released = {} /\ heap'.live = heap.live

\* C27: over create drawable, render() any number of times, dispose drawable,
\* every backing block the arena allocated is released exactly once, by
\* compress or by the arena's destructor; no block is released twice and no
\* block is still held after dispose.
C27_BlockAccounting == []BlocksAccounted /\ [][C27_Step]_vars

\* the drawable was disposed after a render that had grown its arena: the
\* destructor released two blocks and the heap holds nothing
C27_Witness ==
    /\ lastCall.op = "dispose"
    /\ ~alive
    /\ Cardinality(heap.released) >= 2
    /\ heap.live = {}
    /\ ~heap.invalidFree

\* what a caller reads of a command: its counts, its arrays' contents, its
\* blend mode and its atlas page, not the addresses that hold them
ContentOf(c) ==
    [numVertices |-> c.numVertices, numIndices |-> c.numIndices,
     positions |-> c.positionsData, uvs |-> c.uvsData, colors |-> c.colorsData,
     indices |-> c.indicesData, blendMode |-> c.blendMode, atlasPage |-> c.atlasPage]

\* the contents of the commands of the list, node by node
ListContent == [k \in 1..Len(CommandList) |-> ContentOf(CommandList[k])]

\* a step of C29: a render that follows a render, with the skeleton as it
\* was, returns a list of the same content
C29_Step ==
    (lastCall.op = "render" /\ lastCall'.op = "render" /\ skeleton' = skeleton)
    => /\ Len(CommandList') = Len(CommandList)
       /\ ListContent' = ListContent
       /\ lastCall'.log = lastCall.log

\* C29: calling render() twice in a row on the same drawable with no change
\* to the skeleton, slots or attachments in between yields two command lists
\* equal in length and, node by node, in vertex and index counts, positions,
\* uvs, colors, indices, blend mode and atlas page; no clipper or arena state
\* left by the first call changes the second call's output.
C29_RenderRepeatable == [][C29_Step]_vars

\* the second of two renders of one skeleton (slot 1 still holds the Region
\* it was created with): the first left a grown arena and had opened a clip
\* at the last place of the draw order, the second wrote its two commands
\* unclipped
C29_Witness ==
    /\ lastCall.op = "render"
    /\ skeleton.slots[1].attachment.kind = "Clipping"
    /\ Len(lastCall.before) >= 2
    /\ Len(allocator.blocks) = 1
    /\ Len(CommandList) = 2
    /\ lastCall.log[NumSlots].did = "clipStart"
    /\ \A k \in 1..Len(CommandList) : CommandList[k].positionsData.src = "world"

(***************************************************************************)
(* Claims about the packed color (SpecColor).                              *)
(***************************************************************************)
\* the 8-bit field of the 32-bit word w that starts at bit shift: w is held
\* in its signed reading, and \div rounds down, so this is the field of the
\* word taken modulo 2^32
Field(w, shift) ==
    (w \div (CASE shift = 0 -> 1 [] shift = 8 -> 256 [] shift = 16 -> 65536
               [] shift = 24 -> 16777216)) % 256

\* q is the product of the floats s/2, l/2 and t/2 by 255, truncated toward 0
IsTruncation(q, s, l, t) ==
    /\ q \in 0..255
    /\ q * 8 <= s * l * t * 255
    /\ s * l * t * 255 < (q + 1) * 8

\* C8: each packed 8-bit channel is the truncation toward zero of
\* skeletonChannel * slotChannel * attachmentChannel * 255, and the 32-bit
\* color is (a<<24)|(r<<16)|(g<<8)|b modulo 2^32, the same in every color
\* entry of the command; tints (1,1,1,1), (1,1,1,1), (0.5,0.5,0.5,1) give
\* r = g = b = 127 and a = 255.
C8_ColorPacking ==
    lastCall.op = "render" =>
        \A k \in 1..Len(CommandList) :
            LET c    == CommandList[k]
                slot == skeleton.slots[c.slot]
                sc   == skeleton.color
                lc   == slot.color
                ac   == slot.attachment.color
            IN  \A ii \in 1..c.numVertices :
                  LET w == c.colorsData[ii]
                  IN  /\ IsTruncation(Field(w, 16), sc[1], lc[1], ac[1])
                      /\ IsTruncation(Field(w, 8), sc[2], lc[2], ac[2])
                      /\ IsTruncation(Field(w, 0), sc[3], lc[3], ac[3])
                      /\ IsTruncation(Field(w, 24), sc[4], lc[4], ac[4])
                      /\ w \in -2147483647 - 1 .. 2147483647
                      /\ (sc = White /\ lc = White /\ ac = <<1, 1, 1, 2>>) =>
                           /\ Field(w, 16) = 127 /\ Field(w, 8) = 127
                           /\ Field(w, 0) = 127 /\ Field(w, 24) = 255

\* the example of the claim, rendered
C8_Witness ==
    /\ lastCall.op = "render"
    /\ skeleton.color = White
    /\ skeleton.slots[1].color = White
    /\ skeleton.slots[1].attachment.color = <<1, 1, 1, 2>>
    /\ Len(CommandList) = 1
    /\ CommandList[1].numVertices = 4
    /\ \A ii \in 1..4 : Field(CommandList[1].colorsData[ii], 16) = 127
                          /\ Field(CommandList[1].colorsData[ii], 24) = 255

(***************************************************************************)
(* Claims about the animation state (SpecAnim).                            *)
(***************************************************************************)
\* C9: getNumEvents reports the number of listener callbacks received since
\* the last reset (or since creation); an update never clears or shrinks the
\* buffer, it appends its events to those already there, so two updates in a
\* row accumulate the events of both; reset brings getNumEvents back to 0.
C9_EventsAccumulate ==
    /\ getNumEvents(events) = callbacks
    /\ lastCall.op = "update" =>
         /\ events = lastCall.before \o lastCall.queued
         /\ getNumEvents(events) = getNumEvents(lastCall.before) + Len(lastCall.queued)
    /\ lastCall.op = "events_reset" => getNumEvents(events) = 0

\* a second update in a row: the buffer holds the events of both
C9_Witness ==
    /\ lastCall.op = "update"
    /\ Len(lastCall.queued) = 1
    /\ Len(lastCall.before) = 3
    /\ lastCall.before[3].type = "event"
    /\ getNumEvents(events) = 4
    /\ callbacks = 4

\* entry e was superseded: the animation state replaced it or let go of it
Superseded(e) == entries[e].status \in {"mixingFrom", "retired"}

\* C10: once setAnimation has replaced a track's current entry, the
\* superseded TrackEntry is reclaimed by no call but
\* spine_animation_state_dispose_track_entry on it: not by the replacement,
\* not by a later update, apply, setAnimation or clearTrack; until then its
\* fields stay as they were.
C10_ManualDisposal ==
    [][\A e \in EntryIds :
         /\ (entries[e].status = "current" /\ lastCall'.op = "set_animation"
               /\ entries'[e].status # "current") => Superseded(e)'
         /\ Superseded(e) =>
              \/ /\ Superseded(e)'
                 /\ entries'[e].animation = entries[e].animation
                 /\ entries'[e].trackIndex = entries[e].trackIndex
              \/ /\ lastCall'.op = "dispose_track_entry"
                 /\ lastCall'.entry = e
                 /\ entries'[e].status = "free"]_vars

\* a superseded entry that has outlived its replacement, an update that
\* completed its mix and a clearTrack, and is still readable
C10_Witness ==
    /\ lastCall.op = "clear_track"
    /\ \E e \in EntryIds :
         /\ entries[e].status = "retired"
         /\ entries[e].animation = "walk"
         /\ entries[e].applied
         /\ \E k \in 1..Len(events) : events[k] = Lifecycle("dispose", e)
         /\ \E k \in 1..Len(lastCall.queued) : lastCall.queued[k].entry # e

(***************************************************************************)
(* Claims about the indexed event getters (SpecEvents).                    *)
(***************************************************************************)
\* what a getter returns for an index that is not a position of the buffer
OutOfRangeResult(name) ==
    IF name = "get_event_type" THEN SPINE_EVENT_TYPE_DISPOSE ELSE 0

\* the field a getter returns of the triple t
FieldOf(name, t) ==
    CASE name = "get_event_type" -> EventTypeValue(t.type)
      [] name = "get_track_entry" -> t.entry
      [] name = "get_event" -> t.event

\* C28: for every index outside 0 .. getNumEvents-1, negative indices
\* included, getEventType returns the dispose kind and getTrackEntry and
\* getEvent return absent; for an index inside the range each returns the
\* field of the triple recorded at that position.
C28_EventIndexBounds ==
    (lastCall.op = "events_get" /\ lastCall.handle = 1) =>
        IF lastCall.index \in 0..(getNumEvents(events) - 1)
        THEN lastCall.result = FieldOf(lastCall.name, events[lastCall.index + 1])
        ELSE lastCall.result = OutOfRangeResult(lastCall.name)

\* the track entry getter was called with a negative index on a buffer that
\* holds events and returned absent; the second triple's entry is not absent
C28_Witness ==
    /\ lastCall.op = "events_get"
    /\ lastCall.handle = 1
    /\ lastCall.name = "get_track_entry"
    /\ lastCall.index < 0
    /\ lastCall.result = 0
    /\ Len(events) >= 2
    /\ spine_animation_state_events_get_track_entry(events, 1, 1) # 0

\* the event getter was called with an index inside the range and returned
\* the Event of a user event
C28_InRangeReached ==
    /\ lastCall.op = "events_get"
    /\ lastCall.handle = 1
    /\ lastCall.name = "get_event"
    /\ lastCall.index = getNumEvents(events) - 1
    /\ lastCall.result # 0

(***************************************************************************)
(* Claims about the loaders (SpecLoad).                                    *)
(***************************************************************************)
IsLoad(call) == call.op \in {"load_json", "load_binary"}

\* C11: after any call of spine_skeleton_data_load_json or
\* spine_skeleton_data_load_binary, whether it parsed, failed to parse or
\* rejected its input, spine_bone_get_is_y_down returns true (-1), even if
\* the flag was set false before; the flag then changes only by an explicit
\* spine_bone_set_is_y_down.
C11_YDownAfterLoad ==
    /\ [](IsLoad(lastCall) => spine_bone_get_is_y_down(yDown) = -1)
    /\ [][(yDown /\ lastCall'.op # "set_is_y_down") => yDown']_vars

\* a binary load rejected for its length, made while the flag was false
C11_Witness ==
    /\ lastCall.op = "load_binary"
    /\ lastCall.before = FALSE
    /\ lastCall.atlas # 0
    /\ lastCall.skeletonData.present
    /\ lastCall.length = 0
    /\ spine_bone_get_is_y_down(yDown) = -1

\* the input of a load is bad: no atlas handle, no parsed atlas object, no
\* data, or (binary) a length that is not positive
BadInput(call) ==
    \/ call.atlas = 0
    \/ objects[call.atlas].atlas = 0
    \/ ~call.skeletonData.present
    \/ call.op = "load_binary" /\ call.length <= 0

\* C12: on bad input both loaders return a result handle that is not absent
\* and whose data and error fields are both absent, and they run no parse.
C12_BadInputResult ==
    (IsLoad(lastCall) /\ BadInput(lastCall)) =>
        /\ lastCall.result # 0
        /\ spine_skeleton_data_result_get_data(objects, lastCall.result) = 0
        /\ spine_skeleton_data_result_get_error(objects, lastCall.result) = NullString
        /\ ~lastCall.parsed

\* a binary load of a malformed document with length -1 on a loaded atlas
C12_Witness ==
    /\ lastCall.op = "load_binary"
    /\ lastCall.atlas # 0
    /\ lastCall.skeletonData.present
    /\ ~lastCall.skeletonData.wellFormed
    /\ lastCall.length = -1
    /\ objects[lastCall.result] = EmptyResult

\* C13: spine_atlas_load on a description that is not absent returns a
\* handle that is not absent, and when the description fails to parse the
\* handle's parsed atlas object is absent and spine_atlas_get_error returns a
\* string.
C13_AtlasParseFailureReported ==
    (lastCall.op = "atlas_load" /\ lastCall.atlasData.present) =>
        /\ lastCall.result # 0
        /\ ~lastCall.atlasData.wellFormed =>
             /\ objects[lastCall.result].atlas = 0
             /\ spine_atlas_get_error(objects, lastCall.result) # NullString

\* the image path pointers of atlas handle a
PathsOf(a) == {objects[a].imagePaths[i] : i \in 1..objects[a].numImagePaths}

\* C14: loading a well formed atlas description that declares p pages gives
\* a handle that is not absent, with no error, numImagePaths = p, and for
\* every 0 <= i < p an image path equal to the texture path of page i, held
\* in a string of its own: not the page's buffer, not shared with another
\* index or another atlas.
C14_AtlasRoundTrip ==
    (lastCall.op = "atlas_load" /\ lastCall.atlasData.present
        /\ lastCall.atlasData.wellFormed) =>
        LET a == lastCall.result
            p == Len(lastCall.atlasData.pages)
            path(i) == CHOOSE r \in spine_atlas_get_image_path(objects, a, i).results : TRUE
        IN  /\ a # 0
            /\ spine_atlas_get_error(objects, a) = NullString
            /\ spine_atlas_get_num_image_paths(objects, a) = p
            /\ \A i \in 0..(p - 1) :
                 /\ ~spine_atlas_get_image_path(objects, a, i).outside
                 /\ Deref(objects, path(i)) = lastCall.atlasData.pages[i + 1]
                 /\ path(i).page = 0
                 /\ objects[path(i).base].kind = "string"
                 /\ \A j \in 0..(p - 1) : j # i => path(j) # path(i)
                 /\ \A b \in AtlasHandles \ {0, a} : path(i) \notin PathsOf(b)

\* a second atlas, of two pages with the same texture path, was loaded
C14_Witness ==
    /\ lastCall.op = "atlas_load"
    /\ lastCall.atlasData.wellFormed
    /\ lastCall.atlasData.pages = <<"a.png", "a.png">>
    /\ Cardinality(AtlasHandles) = 3
    /\ Cardinality(PathsOf(lastCall.result)) = 2

\* C15: spine_atlas_get_image_path returns absent for an absent atlas handle
\* and for every index outside 0 .. numImagePaths-1, and never reads outside
\* the path array.
C15_ImagePathBounds ==
    lastCall.op = "atlas_get_image_path" =>
        /\ ~lastCall.outside
        /\ (\/ lastCall.atlas = 0
            \/ lastCall.index < 0
            \/ lastCall.index >= spine_atlas_get_num_image_paths(objects, lastCall.atlas))
           => lastCall.result = NullString

\* the function that pairs with the one that produced an object
PairOf(producer) ==
    CASE producer = "strdup" -> "free"
      [] producer = "SpineExtension::calloc" -> "SpineExtension::free"
      [] producer = "new" -> "delete"
      [] producer = "none" -> "none"

\* C30 as claimed: every string the loaders attach to a handle is released
\* by the allocator family that produced it: the error string of a
\* SkeletonDataResult and the page path and error strings of an Atlas, all
\* produced by strdup, are released through the plain C free and never
\* through the runtime's memory-extension free.
C30_AllocatorPairing ==
    lastCall.op \in {"atlas_dispose", "result_dispose"} =>
        \A k \in 1..Len(lastCall.releases) :
            LET r == lastCall.releases[k]
            IN  r.what \in {"error", "imagePath"} =>
                    /\ ProducedBy(lastCall.before[r.object]) = "strdup"
                    /\ r.by = PairOf("strdup")
                    /\ r.by # "SpineExtension::free"

(***************************************************************************)
(* Claims about the accessors (SpecAccess).                                *)
(***************************************************************************)
\* C16: every accessor called with an absent handle returns a zero-valued
\* result and changes no state; the integer and enumeration getters too,
\* such as the IK bend-direction getters and the event-type getter.
C16_AbsentHandleZero ==
    (lastCall.op = "get" /\ lastCall.handle = 0 /\ lastCall.name # "bone_get_is_y_down") =>
        /\ lastCall.result = 0
        /\ entity = lastCall.before

\* the flag a boolean accessor reports
FlagOf(name, ent, yd) ==
    CASE name = "track_entry_get_loop" -> ent.loop
      [] name = "path_constraint_get_is_active" -> ent.pathActive
      [] name = "transform_constraint_get_is_active" -> ent.transformActive
      [] name = "bone_get_is_y_down" -> yd

\* C17: every boolean accessor returns exactly -1 when the flag is true and
\* exactly 0 when the flag is false or the handle is absent; never 1 nor
\* any other value, whatever int32 the flag was set from.
C17_BooleanABI ==
    (lastCall.op = "get" /\ lastCall.name \in BooleanGetters) =>
        /\ lastCall.result \in {-1, 0}
        /\ lastCall.result = -1 <=>
             /\ lastCall.handle # 0 \/ lastCall.name = "bone_get_is_y_down"
             /\ FlagOf(lastCall.name, entity, yDown)

\* the loop getter reports a flag that a setter made true
C17_Witness ==
    /\ lastCall.op = "get"
    /\ lastCall.name = "track_entry_get_loop"
    /\ lastCall.handle = 1
    /\ entity.loop /\ ~Entity0.loop
    /\ lastCall.result = -1

\* C18: spine_skeleton_get_bounds on an absent skeleton returns a bounds
\* handle that is not absent and whose x, y, width and height all read 0.
C18_BoundsOfAbsentSkeleton ==
    (lastCall.op = "get_bounds" /\ lastCall.skeleton = 0) =>
        /\ lastCall.result # 0
        /\ spine_bounds_get_x(objects, lastCall.result) = 0
        /\ spine_bounds_get_y(objects, lastCall.result) = 0
        /\ spine_bounds_get_width(objects, lastCall.result) = 0
        /\ spine_bounds_get_height(objects, lastCall.result) = 0

\* C25 as claimed: for every bone state spine_bone_get_world_rotation_y
\* returns the bone's world rotation Y, the Y counterpart of what
\* spine_bone_get_world_rotation_x returns, and not the value of another
\* property of the bone.
C25_WorldRotationAccessors ==
    (lastCall.op = "get_bone" /\ lastCall.handle = 1) =>
        /\ lastCall.name = "world_rotation_x" =>
             lastCall.result = lastCall.bone.worldRotationX
        /\ lastCall.name = "world_rotation_y" =>
             lastCall.result = lastCall.bone.worldRotationY

(***************************************************************************)
(* Claims about the skin entries snapshot (FairSpecSkin).                  *)
(***************************************************************************)
\* the snapshot holds each entry of the skin exactly once
EachEntryOnce(call) ==
    /\ Len(call.out) = Len(EntriesOfSkin(call.skin))
    /\ \A k \in 1..Len(EntriesOfSkin(call.skin)) :
         Cardinality({j \in 1..Len(call.out) : call.out[j] = EntriesOfSkin(call.skin)[k]}) = 1

\* C20: for every skin holding n >= 0 entries, spine_skin_get_entries
\* terminates and returns a snapshot with numEntries = n that contains each
\* entry of the skin exactly once.
C20_SkinEntriesSnapshot ==
    /\ (skinCall.pc = "count") ~> (skinCall.pc = "done")
    /\ [](skinCall.pc = "done" /\ skinCall.present =>
            /\ skinCall.result # 0
            /\ skinCall.numEntries = Len(EntriesOfSkin(skinCall.skin))
            /\ ~skinCall.outside
            /\ EachEntryOnce(skinCall))

====
